---- MODULE Spec2Model ----
(***************************************************************************)
(* Flow-graph virtual machine of oxygengine-script-flow (src/vm.rs).        *)
(*                                                                         *)
(* The Vm is modelled as a state machine: its fields are the variables,    *)
(* every public method is one action, and step_event (the interpreter of   *)
(* one node) is an operator over an event, the reference arena and the Vm  *)
(* fields it reads.                                                        *)
(*                                                                         *)
(* Reference = Rc<RefCell<Value>> is an index into `heap`; two handles are *)
(* aliases exactly when the indices are equal.                             *)
(***************************************************************************)
EXTENDS Integers, Sequences, FiniteSets, TLC

VARIABLES
    operations,               \* Vm::operations: names with a registered implementation
    variables,                \* Vm::variables: global variable guid -> Reference
    running_events,           \* Vm::running_events: handle -> VmEvent
    completed_events,         \* Vm::completed_events: handle -> outputs
    event_execution_order,    \* Vm::event_execution_order
    method_execution_order,   \* Vm::method_execution_order, keyed <<type guid, method guid>>
    function_execution_order, \* Vm::function_execution_order
    type_methods,             \* Vm::type_methods
    end_nodes,                \* Vm::end_nodes
    heap,                     \* the Values behind every Reference ever allocated
    next_guid,                \* number of handles GUID::default() has produced
    panicked,                 \* the process was aborted by a panic
    last,                     \* the last call of the host and what it returned
    issued,                   \* handle -> the run_event call that produced it, and
                              \* whether get_completed_events has returned it
    ast,                      \* Vm::ast: the Program handed to Vm::new
    new_result                \* what Vm::new returned for ast

vm_fields == <<operations, variables, running_events, completed_events>>
compiled == <<event_execution_order, method_execution_order,
              function_execution_order, type_methods, end_nodes>>
construction == <<ast, new_result>>
vars == <<operations, variables, running_events, completed_events,
          event_execution_order, method_execution_order,
          function_execution_order, type_methods, end_nodes,
          heap, next_guid, panicked, last, issued, ast, new_result>>

(***************************************************************************)
(* Bounds of the model.                                                    *)
(***************************************************************************)
\* run_event calls that allocate a handle in one behaviour
MaxEvents == 2
\* steps process_event may take for one event before the model gives up
MaxSteps == 40

(***************************************************************************)
(* Generic helpers.                                                        *)
(***************************************************************************)
Range(s) == {s[i] : i \in DOMAIN s}

\* Iterator::position / Iterator::find: the first of the indices that satisfy the
\* predicate, 0 when none does
Position(hits) ==
    IF hits = {} THEN 0 ELSE CHOOSE i \in hits : \A j \in hits : i <= j

EmptyMap == [x \in {} |-> 0]

\* HashMap::insert
MapInsert(m, k, v) == [x \in DOMAIN m \cup {k} |-> IF x = k THEN v ELSE m[x]]

\* HashMap::remove
MapRemove(m, k) == [x \in DOMAIN m \ {k} |-> m[x]]

\* every ordering of a finite set, as sequences
Perms(S) ==
    {p \in [1..Cardinality(S) -> S] : \A i, j \in 1..Cardinality(S) : p[i] = p[j] => i = j}

(***************************************************************************)
(* Value (vm.rs 15-23) and the interchange tree PrefabValue.               *)
(* A Value is [kind, val]; List holds a sequence of References, Object a   *)
(* function from keys to References.                                       *)
(***************************************************************************)
VNone == [kind |-> "None", val |-> 0]
VBool(b) == [kind |-> "Bool", val |-> b]
VNumber(n) == [kind |-> "Number", val |-> n]
VString(s) == [kind |-> "String", val |-> s]
VList(refs) == [kind |-> "List", val |-> refs]
VObject(map) == [kind |-> "Object", val |-> map]

\* PrefabValue: Sequence holds PrefabValues, Mapping a sequence of <<key, value>> pairs
PNull == [kind |-> "Null", val |-> 0]
PBool(b) == [kind |-> "Bool", val |-> b]
PNumber(n) == [kind |-> "Number", val |-> n]
PString(s) == [kind |-> "String", val |-> s]
PSequence(items) == [kind |-> "Sequence", val |-> items]
PMapping(pairs) == [kind |-> "Mapping", val |-> pairs]

\* Rc::new(RefCell::new(v)): the arena with one more cell; the new Reference is its length
Alloc(h, v) == Append(h, v)

RECURSIVE FromPrefab(_, _)
RECURSIVE FromPrefabItems(_, _, _, _)
RECURSIVE FromPrefabPairs(_, _, _, _)

\* impl From<PrefabValue> for Value: [value, heap, panic]
FromPrefab(pv, h) ==
    CASE pv.kind = "Null" -> [value |-> VNone, heap |-> h, panic |-> FALSE]
      [] pv.kind = "Bool" -> [value |-> VBool(pv.val), heap |-> h, panic |-> FALSE]
      [] pv.kind = "Number" -> [value |-> VNumber(pv.val), heap |-> h, panic |-> FALSE]
      [] pv.kind = "String" -> [value |-> VString(pv.val), heap |-> h, panic |-> FALSE]
      [] pv.kind = "Sequence" ->
            LET r == FromPrefabItems(pv.val, 1, h, <<>>)
            IN  [value |-> VList(r.refs), heap |-> r.heap, panic |-> r.panic]
      [] pv.kind = "Mapping" ->
            LET r == FromPrefabPairs(pv.val, 1, h, EmptyMap)
            IN  [value |-> VObject(r.map), heap |-> r.heap, panic |-> r.panic]

\* the Sequence arm: each element converted, then wrapped in a fresh Reference
FromPrefabItems(items, i, h, refs) ==
    IF i > Len(items) THEN [refs |-> refs, heap |-> h, panic |-> FALSE]
    ELSE LET c == FromPrefab(items[i], h)
         IN  IF c.panic THEN [refs |-> refs, heap |-> h, panic |-> TRUE]
             ELSE FromPrefabItems(items, i + 1, Alloc(c.heap, c.value),
                                  Append(refs, Len(c.heap) + 1))

\* the Mapping arm: a key that is not a String panics; collect() into a BTreeMap
\* keeps the last value of a repeated key
FromPrefabPairs(pairs, i, h, map) ==
    IF i > Len(pairs) THEN [map |-> map, heap |-> h, panic |-> FALSE]
    ELSE IF pairs[i][1].kind # "String" THEN [map |-> map, heap |-> h, panic |-> TRUE]
    ELSE LET c == FromPrefab(pairs[i][2], h)
         IN  IF c.panic THEN [map |-> map, heap |-> h, panic |-> TRUE]
             ELSE FromPrefabPairs(pairs, i + 1, Alloc(c.heap, c.value),
                                  MapInsert(map, pairs[i][1].val, Len(c.heap) + 1))

\* the keys of mappings in the documents considered, in the ascending order of
\* String in which a BTreeMap iterates
KeyOrder == <<"a", "b", "k">>

\* BTreeMap::into_iter: the keys of `map` from position i of KeyOrder on
RECURSIVE SortedKeys(_, _)
SortedKeys(map, i) ==
    IF i > Len(KeyOrder) THEN <<>>
    ELSE IF KeyOrder[i] \in DOMAIN map
    THEN <<KeyOrder[i]>> \o SortedKeys(map, i + 1)
    ELSE SortedKeys(map, i + 1)

RECURSIVE ToPrefab(_, _)

\* into() that turns the elements of a List into Null instead of converting them
ToPrefabShallow(v, h) ==
    CASE v.kind = "None" -> PNull
      [] v.kind = "Bool" -> PBool(v.val)
      [] v.kind = "Number" -> PNumber(v.val)
      [] v.kind = "String" -> PString(v.val)
      [] v.kind = "List" -> PSequence([i \in DOMAIN v.val |-> PNull])
      [] v.kind = "Object" ->
            PMapping([i \in DOMAIN SortedKeys(v.val, 1) |->
                        <<PString(SortedKeys(v.val, 1)[i]),
                          ToPrefab(h[v.val[SortedKeys(v.val, 1)[i]]], h)>>])

\* impl Into<PrefabValue> for Value: the Value behind every element is cloned
\* and converted; the entries of an Object come in ascending key order, each key
\* wrapped as a String
ToPrefab(v, h) ==
    CASE v.kind = "None" -> PNull
      [] v.kind = "Bool" -> PBool(v.val)
      [] v.kind = "Number" -> PNumber(v.val)
      [] v.kind = "String" -> PString(v.val)
      [] v.kind = "List" -> PSequence([i \in DOMAIN v.val |-> ToPrefab(h[v.val[i]], h)])
      [] v.kind = "Object" ->
            PMapping([i \in DOMAIN SortedKeys(v.val, 1) |->
                        <<PString(SortedKeys(v.val, 1)[i]),
                          ToPrefab(h[v.val[SortedKeys(v.val, 1)[i]]], h)>>])

(***************************************************************************)
(* The program description (crate::ast), as vm.rs reads it.                *)
(***************************************************************************)
\* ast::Reference
RefNone == [t |-> "None", id |-> ""]
Guid(g) == [t |-> "Guid", id |-> g]
Named(n) == [t |-> "Named", id |-> n]

\* ast::Link
LinkNone == [t |-> "None", node |-> "", index |-> 0]
NodeIndexed(g, i) == [t |-> "NodeIndexed", node |-> g, index |-> i]

\* ast::NodeType: [t, a, b, i, lit]; a and b are References, i an index or a key
NT(t) == [t |-> t, a |-> RefNone, b |-> RefNone, i |-> 0, key |-> "", lit |-> PNull]
Halt == NT("Halt")
Loop(body) == [NT("Loop") EXCEPT !.a = body]
IfElse(next_node_true, next_node_false) ==
    [NT("IfElse") EXCEPT !.a = next_node_true, !.b = next_node_false]
Break == NT("Break")
Continue == NT("Continue")
GetInstance == NT("GetInstance")
GetGlobalVariable(r) == [NT("GetGlobalVariable") EXCEPT !.a = r]
GetLocalVariable(r) == [NT("GetLocalVariable") EXCEPT !.a = r]
GetInput(i) == [NT("GetInput") EXCEPT !.i = i]
SetOutput(i) == [NT("SetOutput") EXCEPT !.i = i]
GetValue(pv) == [NT("GetValue") EXCEPT !.lit = pv]
GetListItem(i) == [NT("GetListItem") EXCEPT !.i = i]
GetObjectItem(k) == [NT("GetObjectItem") EXCEPT !.key = k]
MutateValue == NT("MutateValue")
CallOperation(r) == [NT("CallOperation") EXCEPT !.a = r]
CallFunction(r) == [NT("CallFunction") EXCEPT !.a = r]
CallMethod(type_ref, method_ref) == [NT("CallMethod") EXCEPT !.a = type_ref, !.b = method_ref]
\* any NodeType the interpreter has no arm for
Entry == NT("Entry")

\* ast::Node
Node(guid, name, node_type, next_node, input_links) ==
    [guid |-> guid, name |-> name, node_type |-> node_type,
     next_node |-> next_node, input_links |-> input_links]

\* ast::Variable
Variable(guid, name) == [guid |-> guid, name |-> name]

\* ast::Event; input_constrains and output_constrains are read only through len()
Event(guid, name, entry_node, nodes, vars_, n_in, n_out) ==
    [guid |-> guid, name |-> name, entry_node |-> entry_node, nodes |-> nodes,
     variables |-> vars_, input_constrains |-> n_in, output_constrains |-> n_out]

\* ast::Function and ast::Method
Function(guid, name, nodes, vars_, n_in, n_out) ==
    [guid |-> guid, name |-> name, nodes |-> nodes,
     variables |-> vars_, input_constrains |-> n_in, output_constrains |-> n_out]

\* ast::Operation
Operation(guid, name, n_in, n_out) ==
    [guid |-> guid, name |-> name, input_constrains |-> n_in, output_constrains |-> n_out]

\* ast::Trait
Trait(guid, name, methods) == [guid |-> guid, name |-> name, methods |-> methods]

\* ast::Type; traits_implementation is a sequence of <<trait reference, methods>>
Type(guid, name, traits_implementation) ==
    [guid |-> guid, name |-> name, traits_implementation |-> traits_implementation]

\* ast::Program
MkProgram(events, functions, types, traits, vars_, ops) ==
    [events |-> events, functions |-> functions, types |-> types,
     traits |-> traits, variables |-> vars_, operations |-> ops]

(***************************************************************************)
(* Vm::new: the dispatch table and the compiler (vm.rs 158-398).           *)
(***************************************************************************)
\* the closure `match reference { Guid(g) => x.guid == g, Named(n) => x.name == n, None => false }`
MatchRef(x, r) ==
    CASE r.t = "Guid" -> x.guid = r.id
      [] r.t = "Named" -> x.name = r.id
      [] OTHER -> FALSE

\* iter().find(|x| matches reference): the index of the first match, 0 when none
FindRef(s, r) == Position({i \in DOMAIN s : MatchRef(s[i], r)})

\* iter().find(|x| x.name == name)
FindName(s, name) == Position({i \in DOMAIN s : s[i].name = name})

\* iter().find(|x| x.guid == guid)
FindGuid(s, guid) == Position({i \in DOMAIN s : s[i].guid = guid})

RECURSIVE Flatten(_)
Flatten(ss) == IF ss = <<>> THEN <<>> ELSE Head(ss) \o Flatten(Tail(ss))

FirstDefect(statuses) ==
    LET i == Position({k \in DOMAIN statuses : statuses[k] # "ok"})
    IN  IF i = 0 THEN "ok" ELSE statuses[i]

\* what building the edges of one node does (197-225): "ok", an Err, or the
\* panic of nodes_map.get(..).unwrap() on a guid that is not in the construct
NodeEdgeStatus(nodes, n) ==
    LET next_status ==
            CASE n.next_node.t = "Guid" ->
                    IF FindGuid(nodes, n.next_node.id) = 0 THEN "panic" ELSE "ok"
              [] n.next_node.t = "Named" ->
                    IF FindName(nodes, n.next_node.id) = 0 THEN "NodeDoesNotExists" ELSE "ok"
              [] OTHER -> "ok"
        link_status ==
            FirstDefect([i \in DOMAIN n.input_links |->
                IF n.input_links[i].t = "NodeIndexed"
                   /\ FindGuid(nodes, n.input_links[i].node) = 0
                THEN "panic" ELSE "ok"])
    IN  IF next_status # "ok" THEN next_status ELSE link_status

\* GraphEdges without the loop over input_links (214-224)
GraphEdgesNoLinks(nodes) ==
    {<<n.guid, n.next_node.id>> : n \in {m \in Range(nodes) : m.next_node.t = "Guid"}}
    \cup {<<n.guid, nodes[FindName(nodes, n.next_node.id)].guid>> :
            n \in {m \in Range(nodes) : m.next_node.t = "Named"
                                        /\ FindName(nodes, m.next_node.id) # 0}}

\* the edges graph.add_edge adds for one construct: node -> next_node and
\* producer -> consumer for every input link
GraphEdges(nodes) ==
    LET next_edges ==
            {<<n.guid, n.next_node.id>> : n \in {m \in Range(nodes) : m.next_node.t = "Guid"}}
            \cup {<<n.guid, nodes[FindName(nodes, n.next_node.id)].guid>> :
                    n \in {m \in Range(nodes) : m.next_node.t = "Named"
                                                /\ FindName(nodes, m.next_node.id) # 0}}
        link_edges ==
            UNION {{<<n.input_links[i].node, n.guid>> :
                        i \in {j \in DOMAIN n.input_links : n.input_links[j].t = "NodeIndexed"}} :
                   n \in Range(nodes)}
    IN  next_edges \cup link_edges

\* petgraph::algo::toposort, by its contract: every ordering of the nodes in which
\* each edge goes forward; empty exactly when the graph has a cycle (Err(Cycle))
RECURSIVE toposort(_, _)
toposort(S, E) ==
    IF S = {} THEN {<<>>}
    ELSE UNION {{<<n>> \o rest : rest \in toposort(S \ {n}, E)} :
                n \in {m \in S : \A e \in E : e[2] = m => e[1] \notin S}}

\* graph.externals(Direction::Outgoing): the nodes no edge leaves
Externals(nodes, E) == {n.guid : n \in {m \in Range(nodes) : \A e \in E : e[1] # m.guid}}

\* CompileNodes with toposort's Err(Cycle) taken for an empty order instead of
\* returned as CompilationError
CompileNodesCycleIgnored(nodes) ==
    LET edge_status == FirstDefect([i \in DOMAIN nodes |-> NodeEdgeStatus(nodes, nodes[i])])
        E == GraphEdges(nodes)
        orders == toposort({n.guid : n \in Range(nodes)}, E)
    IN  IF edge_status # "ok" THEN [status |-> edge_status, orders |-> {}, ends |-> {}]
        ELSE IF orders = {} THEN [status |-> "ok", orders |-> {<<>>}, ends |-> {}]
        ELSE [status |-> "ok", orders |-> orders, ends |-> Externals(nodes, E)]

\* one construct compiled: [status, orders, ends]
CompileNodes(nodes) ==
    LET edge_status == FirstDefect([i \in DOMAIN nodes |-> NodeEdgeStatus(nodes, nodes[i])])
        E == GraphEdges(nodes)
        orders == toposort({n.guid : n \in Range(nodes)}, E)
    IN  IF edge_status # "ok" THEN [status |-> edge_status, orders |-> {}, ends |-> {}]
        ELSE IF orders = {} THEN [status |-> "CompilationError", orders |-> {}, ends |-> {}]
        ELSE [status |-> "ok", orders |-> orders, ends |-> Externals(nodes, E)]

\* the trait a traits_implementation entry names (165-171)
FindTrait(prog, trait_ref) == FindRef(prog.traits, trait_ref)

\* type_methods (159-185): "TraitDoesNotExists" or the table
\* {type guid: {trait method guid: <<trait guid, the type has a method of that name>>}}
TypeMethodsStatus(prog) ==
    FirstDefect(Flatten([ti \in DOMAIN prog.types |->
        [k \in DOMAIN prog.types[ti].traits_implementation |->
            IF FindTrait(prog, prog.types[ti].traits_implementation[k][1]) = 0
            THEN "TraitDoesNotExists" ELSE "ok"]]))

\* the pairs <<trait, trait method>> a type implements
TraitMethodsOf(prog, type_) ==
    Flatten([k \in DOMAIN type_.traits_implementation |->
        LET ti == FindTrait(prog, type_.traits_implementation[k][1])
        IN  IF ti = 0 THEN <<>>
            ELSE [mi \in DOMAIN prog.traits[ti].methods |->
                    [trait |-> prog.traits[ti], trait_method |-> prog.traits[ti].methods[mi],
                     methods |-> type_.traits_implementation[k][2]]]])

TypeMethods(prog) ==
    [tg \in {t.guid : t \in Range(prog.types)} |->
        LET type_ == prog.types[FindGuid(prog.types, tg)]
            entries == TraitMethodsOf(prog, type_)
        IN  [mg \in {e.trait_method.guid : e \in Range(entries)} |->
                LET e == entries[Position({k \in DOMAIN entries : entries[k].trait_method.guid = mg})]
                IN  <<e.trait.guid, FindName(e.methods, e.trait_method.name) # 0>>]]

\* the methods the compiler walks (245-262): for every trait method of every type,
\* the type's method of that name when there is one, else the trait's
MethodsToCompile(prog) ==
    Flatten([ti \in DOMAIN prog.types |->
        LET entries == TraitMethodsOf(prog, prog.types[ti])
        IN  [k \in DOMAIN entries |->
                LET own == FindName(entries[k].methods, entries[k].trait_method.name)
                IN  [type_guid |-> prog.types[ti].guid,
                     method |-> IF own # 0 THEN entries[k].methods[own]
                                ELSE entries[k].trait_method]]])

\* the constructs in the order Vm::new compiles them: events, methods, functions
ConstructsInOrder(prog) ==
    [i \in DOMAIN prog.events |-> prog.events[i].nodes]
    \o [i \in DOMAIN MethodsToCompile(prog) |-> MethodsToCompile(prog)[i].method.nodes]
    \o [i \in DOMAIN prog.functions |-> prog.functions[i].nodes]

\* what Vm::new returns: "Ok", or the first failure in the order the code meets them
NewStatus(prog) ==
    IF TypeMethodsStatus(prog) # "ok" THEN TypeMethodsStatus(prog)
    ELSE LET st == FirstDefect([i \in DOMAIN ConstructsInOrder(prog) |->
                        CompileNodes(ConstructsInOrder(prog)[i]).status])
         IN  IF st = "ok" THEN "Ok" ELSE st

\* the maps that give every key one of the orders toposort may return for it
RECURSIVE OrderChoices(_)
OrderChoices(orders) ==
    IF DOMAIN orders = {} THEN {EmptyMap}
    ELSE LET k == CHOOSE x \in DOMAIN orders : TRUE
         IN  {MapInsert(f, k, o) : f \in OrderChoices(MapRemove(orders, k)), o \in orders[k]}

EventOrders(prog) ==
    OrderChoices([g \in {e.guid : e \in Range(prog.events)} |->
                    CompileNodes(prog.events[FindGuid(prog.events, g)].nodes).orders])

FunctionOrders(prog) ==
    OrderChoices([g \in {f.guid : f \in Range(prog.functions)} |->
                    CompileNodes(prog.functions[FindGuid(prog.functions, g)].nodes).orders])

\* toposort is a function of the graph: a method compiled for several types (a
\* trait default) gets the same order for each, so the order is chosen per method
MethodOrders(prog) ==
    LET ms == MethodsToCompile(prog)
        by_method == OrderChoices([g \in {m.method.guid : m \in Range(ms)} |->
                        CompileNodes(ms[Position({k \in DOMAIN ms : ms[k].method.guid = g})]
                                        .method.nodes).orders])
    IN  {[k \in {<<m.type_guid, m.method.guid>> : m \in Range(ms)} |-> f[k[2]]] : f \in by_method}

EndNodes(prog) ==
    UNION {CompileNodes(ConstructsInOrder(prog)[i]).ends : i \in DOMAIN ConstructsInOrder(prog)}

\* the Vm values Vm::new(prog) may return when it succeeds (380-397): one per
\* choice of the orders toposort returns; every global variable starts as a fresh
\* Reference to Value::None
NewVm(prog) ==
    [operations : {{}},
     variables : {[g \in {v.guid : v \in Range(prog.variables)} |->
                        FindGuid(prog.variables, g)]},
     heap : {[i \in 1..Len(prog.variables) |-> [kind |-> "None", val |-> 0]]},
     event_execution_order : EventOrders(prog),
     method_execution_order : MethodOrders(prog),
     function_execution_order : FunctionOrders(prog),
     type_methods : {TypeMethods(prog)},
     end_nodes : {EndNodes(prog)}]

(***************************************************************************)
(* The program the Vm of the main specification is built from.             *)
(***************************************************************************)
\* function add(a, b): reads both inputs, calls the native "add", writes the result
FnAdd ==
    Function("fn_add", "add",
        << Node("add.a", "a", GetInput(0), Guid("add.b"), <<>>),
           Node("add.b", "b", GetInput(1), Guid("add.op"), <<>>),
           Node("add.op", "op", CallOperation(Named("add")), Guid("add.out"),
                <<NodeIndexed("add.a", 0), NodeIndexed("add.b", 0)>>),
           Node("add.out", "out", SetOutput(0), RefNone, <<NodeIndexed("add.op", 0)>>) >>,
        <<>>, 2, 1)

\* Scenario A: forwards its two inputs to add(a, b) and outputs the result
EvAdd ==
    Event("ev_add", "ev_add", Named("a"),
        << Node("ea.a", "a", GetInput(0), Guid("ea.b"), <<>>),
           Node("ea.b", "b", GetInput(1), Guid("ea.call"), <<>>),
           Node("ea.call", "call", CallFunction(Named("add")), Guid("ea.out"),
                <<NodeIndexed("ea.a", 0), NodeIndexed("ea.b", 0)>>),
           Node("ea.out", "out", SetOutput(0), RefNone, <<NodeIndexed("ea.call", 0)>>) >>,
        <<>>, 2, 1)

\* the same computation with the native operation called from the event itself
EvOp ==
    Event("ev_op", "ev_op", Named("a"),
        << Node("eo.a", "a", GetInput(0), Guid("eo.b"), <<>>),
           Node("eo.b", "b", GetInput(1), Guid("eo.op"), <<>>),
           Node("eo.op", "op", CallOperation(Named("add")), Guid("eo.out"),
                <<NodeIndexed("eo.a", 0), NodeIndexed("eo.b", 0)>>),
           Node("eo.out", "out", SetOutput(0), RefNone, <<NodeIndexed("eo.op", 0)>>) >>,
        <<>>, 2, 1)

\* Scenario C: an IfElse on the event's input; both branches lead to the output
EvIf ==
    Event("ev_if", "ev_if", Named("c"),
        << Node("ei.c", "c", GetInput(0), Guid("ei.br"), <<>>),
           Node("ei.br", "br", IfElse(Named("out"), Named("out")), Named("out"),
                <<NodeIndexed("ei.c", 0)>>),
           Node("ei.out", "out", SetOutput(0), RefNone, <<NodeIndexed("ei.c", 0)>>) >>,
        <<>>, 1, 1)

\* suspends at a Halt, then outputs a literal
EvHalt ==
    Event("ev_halt", "ev_halt", Named("h"),
        << Node("eh.h", "h", Halt, Guid("eh.v"), <<>>),
           Node("eh.v", "v", GetValue(PNumber(5)), Guid("eh.out"), <<>>),
           Node("eh.out", "out", SetOutput(0), RefNone, <<NodeIndexed("eh.v", 0)>>) >>,
        <<>>, 0, 1)

\* an event without entry node
EvEmpty == Event("ev_empty", "ev_empty", RefNone, <<>>, <<>>, 0, 0)

\* calls method m of type T2, which overrides the trait's m
EvMethod ==
    Event("ev_method", "ev_method", Named("v"),
        << Node("em.v", "v", GetValue(PNumber(7)), Guid("em.call"), <<>>),
           Node("em.call", "call", CallMethod(Named("T2"), Named("m")), Guid("em.out"),
                <<NodeIndexed("em.v", 0)>>),
           Node("em.out", "out", SetOutput(0), RefNone, <<NodeIndexed("em.call", 0)>>) >>,
        <<>>, 0, 1)

\* trait Tr declares m with a default body
TraitTr ==
    Trait("tr", "Tr",
        << Function("tr.m", "m",
              << Node("tm.i", "i", GetInstance, Guid("tm.out"), <<>>),
                 Node("tm.out", "out", SetOutput(0), RefNone, <<NodeIndexed("tm.i", 0)>>) >>,
              <<>>, 1, 1) >>)

\* T1 takes the default m, T2 overrides it
TypeT1 == Type("t1", "T1", << <<Named("Tr"), <<>> >> >>)

TypeT2 ==
    Type("t2", "T2",
        << <<Named("Tr"),
             << Function("t2.m", "m",
                   << Node("t2m.i", "i", GetInput(0), Guid("t2m.out"), <<>>),
                      Node("t2m.out", "out", SetOutput(0), RefNone, <<NodeIndexed("t2m.i", 0)>>) >>,
                   <<>>, 1, 1) >> >> >>)

Program ==
    MkProgram(<<EvAdd, EvOp, EvIf, EvHalt, EvEmpty, EvMethod>>,
              <<FnAdd>>,
              <<TypeT1, TypeT2>>,
              <<TraitTr>>,
              <<Variable("g", "g")>>,
              <<Operation("op_add", "add", 2, 1)>>)

\* VmOperation::execute of the implementations the host registers, by name:
\* "add" sums two Numbers into a fresh Reference and fails on anything else;
\* "inc" adds one to the Number behind its input, in place, and returns nothing;
\* "eq3" returns a fresh Bool telling whether its input is the Number 3;
\* "pair" returns two fresh Numbers whatever it is given
NativeExecute(name, inputs, h) ==
    CASE name = "add" ->
            IF Len(inputs) = 2 /\ h[inputs[1]].kind = "Number" /\ h[inputs[2]].kind = "Number"
            THEN [ok |-> TRUE, outputs |-> <<Len(h) + 1>>,
                  heap |-> Alloc(h, VNumber(h[inputs[1]].val + h[inputs[2]].val))]
            ELSE [ok |-> FALSE, outputs |-> <<>>, heap |-> h]
      [] name = "inc" ->
            IF Len(inputs) = 1 /\ h[inputs[1]].kind = "Number"
            THEN [ok |-> TRUE, outputs |-> <<>>,
                  heap |-> [h EXCEPT ![inputs[1]] = VNumber(h[inputs[1]].val + 1)]]
            ELSE [ok |-> FALSE, outputs |-> <<>>, heap |-> h]
      [] name = "pair" ->
            [ok |-> TRUE, outputs |-> <<Len(h) + 1, Len(h) + 2>>,
             heap |-> Alloc(Alloc(h, VNumber(1)), VNumber(2))]
      [] name = "eq3" ->
            IF Len(inputs) = 1
            THEN [ok |-> TRUE, outputs |-> <<Len(h) + 1>>,
                  heap |-> Alloc(h, VBool(h[inputs[1]] = VNumber(3)))]
            ELSE [ok |-> FALSE, outputs |-> <<>>, heap |-> h]
      [] OTHER -> [ok |-> FALSE, outputs |-> <<>>, heap |-> h]

\* the names the host has implementations for
NativeNames == {"add"}

(***************************************************************************)
(* VmContext, VmJump, VmEvent (vm.rs 911-975).                             *)
(***************************************************************************)
\* VmContextOwner
OwnerEvent(g) == [t |-> "Event", a |-> g, b |-> ""]
OwnerMethod(type_guid, method_guid) == [t |-> "Method", a |-> type_guid, b |-> method_guid]
OwnerFunction(g) == [t |-> "Function", a |-> g, b |-> ""]

\* VmJump
JumpNone == [t |-> "None", node |-> ""]
JumpLoop(g) == [t |-> "Loop", node |-> g]
JumpIfElse(g) == [t |-> "IfElse", node |-> g]

\* the References a new context allocates: `vec![Value::None.into(); n]` clones one
\* Rc n times, so all output slots share one cell; every variable gets its own
NewOutputs(h, n) == [i \in 1..n |-> Len(h) + 1]
HeapAfterOutputs(h, n) == IF n > 0 THEN Alloc(h, VNone) ELSE h

RECURSIVE AllocNones(_, _)
AllocNones(h, n) == IF n = 0 THEN h ELSE AllocNones(Alloc(h, VNone), n - 1)

\* {variable guid: fresh Reference to None}, allocated from cell `base + 1` on
NewVariables(vars_, base) ==
    [g \in {v.guid : v \in Range(vars_)} |-> base + FindGuid(vars_, g)]

\* a VmContext positioned at index 0 with the sentinel on its jump stack
\* (VmEvent::new 958-972, and the pushes at 742-757 and 826-841)
NewContext(owner, caller_node, execution, instance, inputs, n_out, vars_, h) ==
    [owner |-> owner,
     caller_node |-> caller_node,
     execution |-> execution,
     current |-> 0,
     instance |-> instance,
     inputs |-> inputs,
     outputs |-> NewOutputs(h, n_out),
     variables |-> NewVariables(vars_, Len(HeapAfterOutputs(h, n_out))),
     jump_stack |-> <<JumpNone>>,
     node_outputs |-> EmptyMap]

\* the arena after NewContext
HeapAfterContext(h, n_out, vars_) == AllocNones(HeapAfterOutputs(h, n_out), Len(vars_))

\* VmEvent::new with the root context positioned at Some(1)
VmEventNewAtOne(owner_event, execution, vars_, inputs, n_out, h) ==
    [contexts |-> <<[NewContext(OwnerEvent(owner_event), "", execution, 0, inputs,
                                n_out, vars_, h) EXCEPT !.current = 1]>>,
     outputs |-> <<>>]

\* VmEvent::new
VmEventNew(owner_event, execution, vars_, inputs, n_out, h) ==
    [contexts |-> <<NewContext(OwnerEvent(owner_event), "", execution, 0, inputs,
                               n_out, vars_, h)>>,
     outputs |-> <<>>]

HasContext(ev) == ev.contexts # <<>>
Top(ev) == ev.contexts[Len(ev.contexts)]

\* VmEvent::get_node_outputs
get_node_outputs(ev, guid) ==
    IF HasContext(ev) /\ guid \in DOMAIN Top(ev).node_outputs
    THEN [err |-> "", outputs |-> Top(ev).node_outputs[guid]]
    ELSE [err |-> "ThereAreNoCachedNodeOutputs", outputs |-> <<>>]

\* VmEvent::get_node_output; Link indices count from 0
get_node_output(ev, link) ==
    IF link.t = "NodeIndexed"
    THEN LET r == get_node_outputs(ev, link.node)
         IN  IF r.err # "" THEN [err |-> r.err, ref |-> 0]
             ELSE IF link.index + 1 \in DOMAIN r.outputs
             THEN [err |-> "", ref |-> r.outputs[link.index + 1]]
             ELSE [err |-> "ThereIsNoCachedNodeIndexedOutput", ref |-> 0]
    ELSE [err |-> "ThereIsNoCachedNodeIndexedOutput", ref |-> 0]

\* VmEvent::set_node_outputs
set_node_outputs(ev, guid, values) ==
    IF HasContext(ev)
    THEN LET n == Len(ev.contexts)
         IN  [ev EXCEPT !.contexts[n].node_outputs = MapInsert(@, guid, values)]
    ELSE ev

\* VmEvent::set_node_output
set_node_output(ev, guid, value) == set_node_outputs(ev, guid, <<value>>)

\* the type's own methods in find_map order
OwnMethods(type_) ==
    Flatten([k \in DOMAIN type_.traits_implementation |-> type_.traits_implementation[k][2]])

\* the lookup in a node list that ends get_node: Ok(node) or NodeDoesNotExists
NodeIn(nodes, reference) ==
    LET ni == FindRef(nodes, reference)
    IN  IF ni # 0 THEN [err |-> "", node |-> nodes[ni]]
        ELSE [err |-> "NodeDoesNotExists", node |-> Node("", "", Entry, RefNone, <<>>)]

NoNode(e) == [err |-> e, node |-> Node("", "", Entry, RefNone, <<>>)]

\* VmEvent::get_node: the node a reference names in the construct that owns the
\* top context
get_node(ev, reference) ==
    IF ~HasContext(ev) THEN NoNode("NodeDoesNotExists")
    ELSE LET owner == Top(ev).owner
         IN  CASE owner.t = "Event" ->
                    LET ei == FindGuid(ast.events, owner.a)
                    IN  IF ei = 0 THEN NoNode("EventDoesNotExists")
                        ELSE NodeIn(ast.events[ei].nodes, reference)
               [] owner.t = "Function" ->
                    LET fi == FindGuid(ast.functions, owner.a)
                    IN  IF fi = 0 THEN NoNode("FunctionDoesNotExists")
                        ELSE NodeIn(ast.functions[fi].nodes, reference)
               [] owner.t = "Method" ->
                    IF owner.a \notin DOMAIN type_methods THEN NoNode("NodeDoesNotExists")
                    ELSE IF owner.b \notin DOMAIN type_methods[owner.a]
                    THEN NoNode("TypeDoesNotImplementMethod")
                    ELSE LET trait_guid == type_methods[owner.a][owner.b][1]
                             is_impl == type_methods[owner.a][owner.b][2]
                             ti == FindGuid(ast.types, owner.a)
                         IN  IF ti = 0 THEN NoNode("TypeDoesNotExists")
                             ELSE IF is_impl
                             THEN LET own == OwnMethods(ast.types[ti])
                                      mi == FindGuid(own, owner.b)
                                  IN  IF mi = 0 THEN NoNode("MethodDoesNotExists")
                                      ELSE NodeIn(own[mi].nodes, reference)
                             ELSE LET tri == FindGuid(ast.traits, trait_guid)
                                  IN  IF tri = 0 THEN NoNode("TraitDoesNotExists")
                                      ELSE LET mi == FindGuid(ast.traits[tri].methods, owner.b)
                                           IN  IF mi = 0 THEN NoNode("MethodDoesNotExists")
                                               ELSE NodeIn(ast.traits[tri].methods[mi].nodes,
                                                           reference)

\* VmEvent::get_current_node: [some, node]; None also when get_node fails
get_current_node(ev) ==
    IF HasContext(ev) /\ Top(ev).current + 1 \in DOMAIN Top(ev).execution
    THEN LET r == get_node(ev, Guid(Top(ev).execution[Top(ev).current + 1]))
         IN  [some |-> r.err = "", node |-> r.node]
    ELSE [some |-> FALSE, node |-> Node("", "", Entry, RefNone, <<>>)]

\* VmEvent::go_to_node: [err, ev]
go_to_node(ev, reference) ==
    LET r == get_node(ev, reference)
    IN  IF r.err # "" THEN [err |-> r.err, ev |-> ev]
        ELSE LET index == Position({k \in DOMAIN Top(ev).execution : Top(ev).execution[k] = r.node.guid})
                 n == Len(ev.contexts)
             IN  IF HasContext(ev) /\ index # 0
                 THEN [err |-> "", ev |-> [ev EXCEPT !.contexts[n].current = index - 1]]
                 ELSE [err |-> "NodeNotFoundInExecutionPipeline", ev |-> ev]

\* VmEvent::go_to_next_node: advance the top context, or pop it when it is
\* exhausted, advance what is below, and only then hand its outputs over
RECURSIVE go_to_next_node(_)
go_to_next_node(ev) ==
    IF ~HasContext(ev) THEN ev
    ELSE LET n == Len(ev.contexts)
             context == ev.contexts[n]
         IN  IF context.current + 1 < Len(context.execution)
             THEN [ev EXCEPT !.contexts[n].current = context.current + 1]
             ELSE LET popped == [ev EXCEPT !.contexts = SubSeq(ev.contexts, 1, n - 1)]
                      after == go_to_next_node(popped)
                  IN  IF context.caller_node # ""
                      THEN set_node_outputs(after, context.caller_node, context.outputs)
                      ELSE [after EXCEPT !.outputs = context.outputs]

\* VmEvent::push_jump_on_stack
push_jump_on_stack(ev, jump) ==
    IF HasContext(ev)
    THEN LET n == Len(ev.contexts)
         IN  [ev EXCEPT !.contexts[n].jump_stack = Append(@, jump)]
    ELSE ev

\* VmEvent::pop_jump_from_stack: [err, jump, ev]
pop_jump_from_stack(ev) ==
    IF HasContext(ev) /\ Top(ev).jump_stack # <<>>
    THEN LET n == Len(ev.contexts)
             js == Top(ev).jump_stack
         IN  [err |-> "", jump |-> js[Len(js)],
              ev |-> [ev EXCEPT !.contexts[n].jump_stack = SubSeq(js, 1, Len(js) - 1)]]
    ELSE [err |-> "StackUnderflow", jump |-> JumpNone, ev |-> ev]

\* VmEvent::instance_value; Reference 0 stands for Option::None
instance_value(ev) ==
    IF HasContext(ev) /\ Top(ev).instance # 0
    THEN [err |-> "", ref |-> Top(ev).instance]
    ELSE [err |-> "InstanceDoesNotExists", ref |-> 0]

\* VmEvent::input_value
input_value(ev, index) ==
    IF HasContext(ev) /\ index + 1 \in DOMAIN Top(ev).inputs
    THEN [err |-> "", ref |-> Top(ev).inputs[index + 1]]
    ELSE [err |-> "InputDoesNotExists", ref |-> 0]

\* set_output_value that stores the value in every slot of the context
set_output_value_all(ev, index, value) ==
    IF HasContext(ev) /\ index + 1 \in DOMAIN Top(ev).outputs
    THEN LET n == Len(ev.contexts)
         IN  [err |-> "",
              ev |-> [ev EXCEPT !.contexts[n].outputs =
                                    [i \in DOMAIN Top(ev).outputs |-> value]]]
    ELSE [err |-> "OutputDoesNotExists", ev |-> ev]

\* VmEvent::set_output_value: [err, ev]
set_output_value(ev, index, value) ==
    IF HasContext(ev) /\ index + 1 \in DOMAIN Top(ev).outputs
    THEN LET n == Len(ev.contexts)
         IN  [err |-> "", ev |-> [ev EXCEPT !.contexts[n].outputs[index + 1] = value]]
    ELSE [err |-> "OutputDoesNotExists", ev |-> ev]

(***************************************************************************)
(* Variable stores.                                                        *)
(***************************************************************************)
\* Vm::global_variable_value: [err, ref]
global_variable_value(reference) ==
    CASE reference.t = "Guid" /\ reference.id \in DOMAIN variables ->
            [err |-> "", ref |-> variables[reference.id]]
      [] reference.t = "Named" /\ FindName(ast.variables, reference.id) # 0
         /\ ast.variables[FindName(ast.variables, reference.id)].guid \in DOMAIN variables ->
            [err |-> "", ref |-> variables[ast.variables[FindName(ast.variables, reference.id)].guid]]
      [] OTHER -> [err |-> "GlobalVariableDoesNotExists", ref |-> 0]

\* the lookup `vars.find(name)` then `context.variables.get(guid)` that ends the
\* Event and Function arms of local_variable_value
LocalByName(ev, vars_, name) ==
    LET vi == FindName(vars_, name)
    IN  IF vi # 0 /\ vars_[vi].guid \in DOMAIN Top(ev).variables
        THEN [err |-> "", ref |-> Top(ev).variables[vars_[vi].guid]]
        ELSE [err |-> "LocalVariableDoesNotExists", ref |-> 0]

\* VmEvent::local_variable_value: [err, ref]
local_variable_value(ev, reference) ==
    LET none == [err |-> "LocalVariableDoesNotExists", ref |-> 0]
        fail(e) == [err |-> e, ref |-> 0]
    IN  IF ~HasContext(ev) THEN none
        ELSE LET context == Top(ev)
                 owner == context.owner
             IN  CASE reference.t = "Guid" ->
                        IF reference.id \in DOMAIN context.variables
                        THEN [err |-> "", ref |-> context.variables[reference.id]]
                        ELSE none
                   [] reference.t = "Named" /\ owner.t = "Event" ->
                        LET ei == FindGuid(ast.events, owner.a)
                        IN  IF ei = 0 THEN none
                            ELSE LocalByName(ev, ast.events[ei].variables, reference.id)
                   [] reference.t = "Named" /\ owner.t = "Function" ->
                        LET fi == FindGuid(ast.functions, owner.a)
                        IN  IF fi = 0 THEN none
                            ELSE LocalByName(ev, ast.functions[fi].variables, reference.id)
                   [] reference.t = "Named" /\ owner.t = "Method" ->
                        IF owner.a \notin DOMAIN type_methods THEN none
                        ELSE IF owner.b \notin DOMAIN type_methods[owner.a] THEN none
                        ELSE LET trait_guid == type_methods[owner.a][owner.b][1]
                                 is_impl == type_methods[owner.a][owner.b][2]
                                 ti == FindGuid(ast.types, owner.a)
                             IN  IF ti = 0 THEN fail("TypeDoesNotExists")
                                 ELSE IF is_impl
                                 THEN \* the method is searched by the variable's name
                                      LET own == OwnMethods(ast.types[ti])
                                          mi == FindName(own, reference.id)
                                      IN  IF mi = 0 THEN fail("MethodDoesNotExists")
                                          ELSE LocalByName(ev, own[mi].variables, reference.id)
                                 ELSE LET tri == FindGuid(ast.traits, trait_guid)
                                      IN  IF tri = 0 THEN fail("TraitDoesNotExists")
                                          ELSE LET mi == FindGuid(ast.traits[tri].methods, owner.b)
                                               IN  IF mi = 0 THEN fail("MethodDoesNotExists")
                                                   ELSE LocalByName(ev,
                                                            ast.traits[tri].methods[mi].variables,
                                                            reference.id)
                   [] OTHER -> none

(***************************************************************************)
(* Vm::step_event (vm.rs 547-886).                                         *)
(* A result is [status, err, ev, heap]; status is "ok" inside the arms,    *)
(* and Continue, Halt, Stop, Err or Panic for the whole step.              *)
(***************************************************************************)
R(status, err, ev, h) == [status |-> status, err |-> err, ev |-> ev, heap |-> h]

\* the `inputs` of a call node: the cached output behind every input link, or the
\* first error
CollectInputs(ev, links) ==
    LET rs == [i \in DOMAIN links |-> get_node_output(ev, links[i])]
        bad == Position({k \in DOMAIN rs : rs[k].err # ""})
    IN  IF bad # 0 THEN [err |-> rs[bad].err, refs |-> <<>>]
        ELSE [err |-> "", refs |-> [i \in DOMAIN links |-> rs[i].ref]]

\* `node.input_links[0]` followed by get_node_output(..)?: indexing an empty Vec panics
FirstInput(ev, node) ==
    IF node.input_links = <<>> THEN [err |-> "panic", ref |-> 0]
    ELSE get_node_output(ev, node.input_links[1])

\* what follows a go_to_node(..)? inside an arm
AfterJump(g, h) == IF g.err # "" THEN R("Err", g.err, g.ev, h) ELSE R("ok", "", g.ev, h)

\* NodeType::Loop (555-558)
EffLoop(ev, h, node) ==
    AfterJump(go_to_node(push_jump_on_stack(ev, JumpLoop(node.guid)), node.node_type.a), h)

\* NodeType::IfElse (559-574)
EffIfElse(ev, h, node) ==
    LET v == FirstInput(ev, node)
    IN  IF v.err = "panic" THEN R("Panic", "", ev, h)
        ELSE IF v.err # "" THEN R("Err", v.err, ev, h)
        ELSE IF h[v.ref].kind = "Bool"
        THEN AfterJump(go_to_node(push_jump_on_stack(ev, JumpIfElse(node.guid)),
                                  IF h[v.ref].val THEN node.node_type.a ELSE node.node_type.b), h)
        ELSE R("Err", "ValueIsNotABool", ev, h)

\* NodeType::Break (575-589)
EffBreak(ev, h, node) ==
    LET p == pop_jump_from_stack(ev)
    IN  IF p.err # "" THEN R("Err", p.err, ev, h)
        ELSE CASE p.jump.t = "Loop" ->
                    LET n == get_node(p.ev, Guid(p.jump.node))
                    IN  IF n.err # "" THEN R("Err", n.err, p.ev, h)
                        ELSE IF n.node.node_type.t = "Loop"
                        THEN AfterJump(go_to_node(p.ev, n.node.next_node), h)
                        ELSE R("Err", "NodeIsNotALoop", p.ev, h)
               [] p.jump.t = "IfElse" -> R("Err", "TryingToBreakIfElse", p.ev, h)
               [] OTHER -> R("ok", "", p.ev, h)

\* NodeType::Continue (590-604)
EffContinue(ev, h, node) ==
    LET p == pop_jump_from_stack(ev)
    IN  IF p.err # "" THEN R("Err", p.err, ev, h)
        ELSE CASE p.jump.t = "Loop" ->
                    LET n == get_node(p.ev, Guid(p.jump.node))
                    IN  IF n.err # "" THEN R("Err", n.err, p.ev, h)
                        ELSE IF n.node.node_type.t = "Loop"
                        THEN AfterJump(go_to_node(p.ev, n.node.node_type.a), h)
                        ELSE R("Err", "NodeIsNotALoop", p.ev, h)
               [] p.jump.t = "IfElse" -> R("Err", "TryingToContinueIfElse", p.ev, h)
               [] OTHER -> R("ok", "", p.ev, h)

\* EffRead that caches a fresh Reference to a clone of the Value read
EffReadCopies(ev, h, node, r) ==
    IF r.err # "" THEN R("Err", r.err, ev, h)
    ELSE R("ok", "", set_node_output(ev, node.guid, Len(h) + 1), Alloc(h, h[r.ref]))

\* GetInstance, GetGlobalVariable, GetLocalVariable, GetInput (605-620): the
\* Reference read is cached as the node's output
EffRead(ev, h, node, r) ==
    IF r.err # "" THEN R("Err", r.err, ev, h)
    ELSE R("ok", "", set_node_output(ev, node.guid, r.ref), h)

\* NodeType::SetOutput (621-624)
EffSetOutput(ev, h, node) ==
    LET v == FirstInput(ev, node)
    IN  IF v.err = "panic" THEN R("Panic", "", ev, h)
        ELSE IF v.err # "" THEN R("Err", v.err, ev, h)
        ELSE LET o == set_output_value(ev, node.node_type.i, v.ref)
             IN  IF o.err # "" THEN R("Err", o.err, ev, h) ELSE R("ok", "", o.ev, h)

\* NodeType::GetValue (625-628)
EffGetValue(ev, h, node) ==
    LET c == FromPrefab(node.node_type.lit, h)
    IN  IF c.panic THEN R("Panic", "", ev, h)
        ELSE R("ok", "", set_node_output(ev, node.guid, Len(c.heap) + 1), Alloc(c.heap, c.value))

\* NodeType::GetListItem (629-643)
EffGetListItem(ev, h, node) ==
    LET v == FirstInput(ev, node)
    IN  IF v.err = "panic" THEN R("Panic", "", ev, h)
        ELSE IF v.err # "" THEN R("Err", v.err, ev, h)
        ELSE IF h[v.ref].kind # "List" THEN R("Err", "ValueIsNotAList", ev, h)
        ELSE IF node.node_type.i + 1 \in DOMAIN h[v.ref].val
        THEN R("ok", "", set_node_output(ev, node.guid, h[v.ref].val[node.node_type.i + 1]), h)
        ELSE R("Err", "IndexOutOfBounds", ev, h)

\* NodeType::GetObjectItem (644-658)
EffGetObjectItem(ev, h, node) ==
    LET v == FirstInput(ev, node)
    IN  IF v.err = "panic" THEN R("Panic", "", ev, h)
        ELSE IF v.err # "" THEN R("Err", v.err, ev, h)
        ELSE IF h[v.ref].kind # "Object" THEN R("Err", "ValueIsNotAnObject", ev, h)
        ELSE IF node.node_type.key \in DOMAIN h[v.ref].val
        THEN R("ok", "", set_node_output(ev, node.guid, h[v.ref].val[node.node_type.key]), h)
        ELSE R("Err", "ObjectKeyDoesNotExists", ev, h)

\* NodeType::MutateValue (659-672): destination and source are both read from
\* input link 0; with the destination mutably borrowed, RefCell::clone of a
\* source that is the same cell panics (BorrowError)
EffMutateValue(ev, h, node) ==
    LET value_dst == FirstInput(ev, node)
        value_src == FirstInput(ev, node)
    IN  IF value_dst.err = "panic" THEN R("Panic", "", ev, h)
        ELSE IF value_dst.err # "" THEN R("Err", value_dst.err, ev, h)
        ELSE IF value_src.ref = value_dst.ref THEN R("Panic", "", ev, h)
        ELSE R("ok", "", ev, [h EXCEPT ![value_dst.ref] = h[value_src.ref]])

\* CallOperation without the comparison of output_constrains.len() with outputs.len()
EffCallOperationAnyOutputs(ev, h, node) ==
    LET oi == FindRef(ast.operations, node.node_type.a)
    IN  IF oi = 0 THEN R("Err", "OperationDoesNotExists", ev, h)
        ELSE LET op == ast.operations[oi]
             IN  IF op.name \notin operations THEN R("Err", "OperationIsNotRegistered", ev, h)
                 ELSE LET inputs == CollectInputs(ev, node.input_links)
                      IN  IF inputs.err # "" THEN R("Err", inputs.err, ev, h)
                          ELSE IF op.input_constrains # Len(inputs.refs)
                          THEN R("Err", "WrongNumberOfInputs", ev, h)
                          ELSE LET x == NativeExecute(op.name, inputs.refs, h)
                               IN  IF ~x.ok THEN R("Err", "Message", ev, h)
                                   ELSE R("ok", "", set_node_outputs(ev, node.guid, x.outputs),
                                          x.heap)

\* NodeType::CallOperation (673-716)
EffCallOperation(ev, h, node) ==
    LET oi == FindRef(ast.operations, node.node_type.a)
    IN  IF oi = 0 THEN R("Err", "OperationDoesNotExists", ev, h)
        ELSE LET op == ast.operations[oi]
             IN  IF op.name \notin operations THEN R("Err", "OperationIsNotRegistered", ev, h)
                 ELSE LET inputs == CollectInputs(ev, node.input_links)
                      IN  IF inputs.err # "" THEN R("Err", inputs.err, ev, h)
                          ELSE IF op.input_constrains # Len(inputs.refs)
                          THEN R("Err", "WrongNumberOfInputs", ev, h)
                          ELSE LET x == NativeExecute(op.name, inputs.refs, h)
                               IN  IF ~x.ok THEN R("Err", "Message", ev, h)
                                   ELSE IF op.output_constrains # Len(x.outputs)
                                   THEN R("Err", "WrongNumberOfOutputs", ev, x.heap)
                                   ELSE R("ok", "", set_node_outputs(ev, node.guid, x.outputs),
                                          x.heap)

\* the push of a callee context (742-757, 826-841)
PushContext(ev, context) == [ev EXCEPT !.contexts = Append(@, context)]

\* NodeType::CallFunction (717-764)
EffCallFunction(ev, h, node) ==
    LET fi == FindRef(ast.functions, node.node_type.a)
    IN  IF fi = 0 THEN R("Err", "FunctionDoesNotExists", ev, h)
        ELSE LET function == ast.functions[fi]
             IN  IF function.guid \notin DOMAIN function_execution_order
                 THEN R("Err", "CouldNotCallFunction", ev, h)
                 ELSE LET inputs == CollectInputs(ev, node.input_links)
                      IN  IF inputs.err # "" THEN R("Err", inputs.err, ev, h)
                          ELSE IF function.input_constrains # Len(inputs.refs)
                          THEN R("Err", "WrongNumberOfInputs", ev, h)
                          ELSE R("ok", "",
                                 PushContext(ev,
                                    NewContext(OwnerFunction(function.guid), node.guid,
                                               function_execution_order[function.guid], 0,
                                               inputs.refs, function.output_constrains,
                                               function.variables, h)),
                                 HeapAfterContext(h, function.output_constrains,
                                                  function.variables))

\* the method a CallMethod resolves (771-799): per traits_implementation entry, the
\* type's own method matching the reference, else the trait's; the first hit.
\* A sequence with the method, or empty.
ResolveMethod(type_, method_ref) ==
    LET per_entry ==
            [k \in DOMAIN type_.traits_implementation |->
                LET methods == type_.traits_implementation[k][2]
                    own == FindRef(methods, method_ref)
                    tri == FindRef(ast.traits, type_.traits_implementation[k][1])
                IN  IF own # 0 THEN <<methods[own]>>
                    ELSE IF tri # 0 /\ FindRef(ast.traits[tri].methods, method_ref) # 0
                    THEN <<ast.traits[tri].methods[FindRef(ast.traits[tri].methods, method_ref)]>>
                    ELSE <<>>]
    IN  Flatten(per_entry)

\* NodeType::CallMethod (765-851)
EffCallMethod(ev, h, node) ==
    LET ti == FindRef(ast.types, node.node_type.a)
    IN  IF ti = 0 THEN R("Err", "TypeDoesNotExists", ev, h)
        ELSE LET type_ == ast.types[ti]
                 found == ResolveMethod(type_, node.node_type.b)
             IN  IF found = <<>> THEN R("Err", "MethodDoesNotExists", ev, h)
                 ELSE LET method == found[1]
                          keys == {k \in DOMAIN method_execution_order : k[2] = method.guid}
                      IN  IF keys = {} THEN R("Err", "CouldNotCallMethod", ev, h)
                          ELSE LET execution == method_execution_order[CHOOSE k \in keys : TRUE]
                                   inputs == CollectInputs(ev, node.input_links)
                               IN  IF inputs.err # "" THEN R("Err", inputs.err, ev, h)
                                   ELSE IF method.input_constrains # Len(inputs.refs)
                                   THEN R("Err", "WrongNumberOfInputs", ev, h)
                                   ELSE IF node.input_links = <<>> THEN R("Panic", "", ev, h)
                                   ELSE R("ok", "",
                                          PushContext(ev,
                                             NewContext(OwnerMethod(type_.guid, method.guid),
                                                        node.guid, execution, inputs.refs[1],
                                                        inputs.refs, method.output_constrains,
                                                        method.variables, h)),
                                          HeapAfterContext(h, method.output_constrains,
                                                           method.variables))

\* the match on node.node_type (550-857), Halt apart
Effect(ev, h, node) ==
    LET t == node.node_type.t
    IN  CASE t = "Loop" -> EffLoop(ev, h, node)
          [] t = "IfElse" -> EffIfElse(ev, h, node)
          [] t = "Break" -> EffBreak(ev, h, node)
          [] t = "Continue" -> EffContinue(ev, h, node)
          [] t = "GetInstance" -> EffRead(ev, h, node, instance_value(ev))
          [] t = "GetGlobalVariable" -> EffRead(ev, h, node, global_variable_value(node.node_type.a))
          [] t = "GetLocalVariable" -> EffRead(ev, h, node, local_variable_value(ev, node.node_type.a))
          [] t = "GetInput" -> EffRead(ev, h, node, input_value(ev, node.node_type.i))
          [] t = "SetOutput" -> EffSetOutput(ev, h, node)
          [] t = "GetValue" -> EffGetValue(ev, h, node)
          [] t = "GetListItem" -> EffGetListItem(ev, h, node)
          [] t = "GetObjectItem" -> EffGetObjectItem(ev, h, node)
          [] t = "MutateValue" -> EffMutateValue(ev, h, node)
          [] t = "CallOperation" -> EffCallOperation(ev, h, node)
          [] t = "CallFunction" -> EffCallFunction(ev, h, node)
          [] t = "CallMethod" -> EffCallMethod(ev, h, node)
          [] OTHER -> R("Err", "TryingToPerformInvalidNodeType", ev, h)

\* the pop at a terminal node (858-880): [err, ev]
EndNodeJump(ev, node) ==
    IF node.guid \notin end_nodes THEN [err |-> "", ev |-> ev]
    ELSE LET p == pop_jump_from_stack(ev)
         IN  IF p.err # "" THEN [err |-> p.err, ev |-> ev]
             ELSE IF p.jump.t \in {"Loop", "IfElse"}
             THEN LET reference == Guid(p.jump.node)
                      n == get_node(p.ev, reference)
                  IN  IF n.err # "" THEN [err |-> n.err, ev |-> p.ev]
                      ELSE IF n.node.node_type.t # p.jump.t
                      THEN [err |-> IF p.jump.t = "Loop" THEN "NodeIsNotALoop"
                                    ELSE "NodeIsNotAnIfElse", ev |-> p.ev]
                      ELSE IF p.jump.t = "Loop" THEN go_to_node(p.ev, reference)
                      ELSE go_to_node(p.ev, n.node.next_node)
             ELSE [err |-> "", ev |-> p.ev]

\* the end of step_event (858-882) once the node's arm has run with result e
AfterEffect(e, node) ==
    IF e.status # "ok" THEN e
    ELSE LET j == EndNodeJump(e.ev, node)
         IN  IF j.err # "" THEN R("Err", j.err, j.ev, e.heap)
             ELSE R("Continue", "", go_to_next_node(j.ev), e.heap)

\* step_event whose Halt arm returns without moving the instruction pointer
StepNodeHaltStays(ev, h, cur) ==
    IF ~cur.some THEN R("Stop", "", ev, h)
    ELSE IF cur.node.node_type.t = "Halt" THEN R("Halt", "", ev, h)
    ELSE AfterEffect(Effect(ev, h, cur.node), cur.node)

\* step_event from the current node on (549-886)
StepNode(ev, h, cur) ==
    IF ~cur.some THEN R("Stop", "", ev, h)
    ELSE IF cur.node.node_type.t = "Halt" THEN R("Halt", "", go_to_next_node(ev), h)
    ELSE AfterEffect(Effect(ev, h, cur.node), cur.node)

\* Vm::step_event
step_event(ev, h) == StepNode(ev, h, get_current_node(ev))

\* Vm::process_event (888-897): step until Halt, Stop or an error; `fuel` bounds
\* the steps the model follows ("Diverged" when it runs out)
RECURSIVE process_event(_, _, _)
RECURSIVE ProcessStep(_, _)

\* the match on one step's status
ProcessStep(s, fuel) ==
    IF s.status = "Continue"
    THEN IF fuel = 0 THEN R("Diverged", "", s.ev, s.heap)
         ELSE process_event(s.ev, s.heap, fuel - 1)
    ELSE s

process_event(ev, h, fuel) == ProcessStep(step_event(ev, h), fuel)

(***************************************************************************)
(* The host's calls (vm.rs 400-545).                                       *)
(***************************************************************************)
\* handles the host may pass: those GUID::default() can have produced, and one more
Handles == 1..(MaxEvents + 1)

\* the event names the host passes to run_event; "nope" names no event
EventNames == {e.name : e \in Range(Program.events)} \cup {"nope"}

\* the input vectors the host passes to run_event, as the Values behind fresh References
InputChoices ==
    { <<>>, <<VNumber(2), VNumber(3)>>, <<VString("s")>>, <<VBool(TRUE)>> }

\* the Reference the host holds and may store in a global variable
HostRef == Len(Program.variables) + 1

\* the record of a call: its name, what it returned, the handle it took or returned,
\* its other arguments, and for process_events the iteration order and each
\* event's outcome
Last(op, result, handle) ==
    [op |-> op, result |-> result, handle |-> handle, args |-> <<>>, order |-> <<>>,
     outcomes |-> EmptyMap, returned |-> EmptyMap]

\* no call is in progress: the methods take &mut self, so the host's calls never overlap
Idle == last.op = "idle"

\* the call returns: the host takes the result, and may then issue its next call
HostReturn ==
    /\ ~Idle
    /\ last' = Last("idle", "", 0)
    /\ UNCHANGED <<operations, variables, running_events, completed_events, compiled,
                   heap, next_guid, panicked, issued, construction>>

RECURSIVE AllocAll(_, _)
AllocAll(h, values) ==
    IF values = <<>> THEN h ELSE AllocAll(Alloc(h, Head(values)), Tail(values))

\* Vm::register_operation
RegisterOperation(name) ==
    /\ ~panicked /\ Idle
    /\ operations' = operations \cup {name}
    /\ last' = Last("register_operation", "Ok", 0)
    /\ UNCHANGED <<variables, running_events, completed_events, compiled, heap,
                   next_guid, panicked, issued, construction>>

\* Vm::unregister_operator
UnregisterOperator(name) ==
    /\ ~panicked /\ Idle
    /\ operations' = operations \ {name}
    /\ last' = Last("unregister_operator", IF name \in operations THEN "true" ELSE "false", 0)
    /\ UNCHANGED <<variables, running_events, completed_events, compiled, heap,
                   next_guid, panicked, issued, construction>>

\* ResolveGlobal that looks a variable up by guid only
ResolveGlobalByGuidOnly(reference) ==
    CASE reference.t = "Guid" /\ reference.id \in DOMAIN variables -> reference.id
      [] OTHER -> ""

\* the guid set_global_variable_value resolves a reference to, "" when none
ResolveGlobal(reference) ==
    CASE reference.t = "Guid" /\ reference.id \in DOMAIN variables -> reference.id
      [] reference.t = "Named" /\ FindName(ast.variables, reference.id) # 0
         /\ ast.variables[FindName(ast.variables, reference.id)].guid \in DOMAIN variables ->
            ast.variables[FindName(ast.variables, reference.id)].guid
      [] OTHER -> ""

\* Vm::set_global_variable_value
SetGlobalVariableValue(reference, value) ==
    /\ ~panicked /\ Idle
    /\ LET guid == ResolveGlobal(reference)
       IN  IF guid # ""
           THEN /\ variables' = [variables EXCEPT ![guid] = value]
                /\ last' = [Last("set_global_variable_value", "Ok", 0)
                               EXCEPT !.returned = <<variables[guid]>>]
           ELSE /\ variables' = variables
                /\ last' = Last("set_global_variable_value", "GlobalVariableDoesNotExists", 0)
    /\ UNCHANGED <<operations, running_events, completed_events, compiled, heap,
                   next_guid, panicked, issued, construction>>

\* Vm::global_variable_value called by the host: the Reference stored, or the error
GlobalVariableValue(reference) ==
    /\ ~panicked /\ Idle
    /\ last' = [Last("global_variable_value",
                     IF global_variable_value(reference).err = "" THEN "Ok"
                     ELSE global_variable_value(reference).err, 0)
                   EXCEPT !.args = <<reference>>,
                          !.returned = IF global_variable_value(reference).err = ""
                                       THEN <<global_variable_value(reference).ref>>
                                       ELSE <<>>]
    /\ UNCHANGED <<operations, variables, running_events, completed_events, compiled,
                   heap, next_guid, panicked, issued, construction>>

\* the host converts the Value behind an output Reference of a completed event
\* into a document (Into<PrefabValue> for Value)
IntoPrefab(reference) ==
    /\ ~panicked /\ Idle
    /\ \E h \in DOMAIN completed_events : reference \in Range(completed_events[h])
    /\ last' = [Last("into_prefab", "Ok", 0)
                   EXCEPT !.args = <<reference>>,
                          !.returned = <<ToPrefab(heap[reference], heap)>>]
    /\ UNCHANGED <<operations, variables, running_events, completed_events, compiled,
                   heap, next_guid, panicked, issued, construction>>

\* RunEventError without the comparison of input_constrains.len() with inputs.len()
RunEventErrorNoArity(name, inputs) ==
    LET ei == FindName(ast.events, name)
    IN  IF ei = 0 THEN "CouldNotRunEvent"
        ELSE IF ast.events[ei].entry_node.t # "None"
                /\ ast.events[ei].guid \notin DOMAIN event_execution_order
        THEN "CouldNotRunEvent"
        ELSE ""

\* what run_event returns without touching the Vm: "" when it goes on (455-462, 491-493)
RunEventError(name, inputs) ==
    LET ei == FindName(ast.events, name)
    IN  IF ei = 0 THEN "CouldNotRunEvent"
        ELSE IF ast.events[ei].input_constrains # Len(inputs) THEN "WrongNumberOfInputs"
        ELSE IF ast.events[ei].entry_node.t # "None"
                /\ ast.events[ei].guid \notin DOMAIN event_execution_order
        THEN "CouldNotRunEvent"
        ELSE ""

\* EntryAbsent when the None arm is never taken
EntryAbsentNever(e) == FALSE

\* the arm `ast::Reference::None` of `match &e.entry_node` (464-467)
EntryAbsent(e) == e.entry_node.t = "None"

\* run_event that hands out the handle 1 again and again
RunEventSameHandle(name, inputs) ==
    /\ ~panicked /\ Idle
    /\ LET error == RunEventError(name, inputs)
           e == ast.events[FindName(ast.events, name)]
           guid == 1
           h == AllocAll(heap, inputs)
           refs == [i \in DOMAIN inputs |-> Len(heap) + i]
       IN  IF error # ""
           THEN /\ last' = [Last("run_event", error, 0) EXCEPT !.args = <<name, inputs>>]
                /\ UNCHANGED <<running_events, completed_events, heap, next_guid, issued>>
           ELSE /\ next_guid < MaxEvents
                /\ next_guid' = guid
                /\ issued' = MapInsert(issued, guid,
                                        [name |-> name, inputs |-> inputs, reported |-> FALSE])
                /\ last' = [Last("run_event", "Ok", guid) EXCEPT !.args = <<name, inputs>>]
                /\ IF EntryAbsent(e)
                   THEN /\ completed_events' = MapInsert(completed_events, guid, <<>>)
                        /\ UNCHANGED <<running_events, heap>>
                   ELSE /\ running_events' =
                              MapInsert(running_events, guid,
                                        VmEventNew(e.guid, event_execution_order[e.guid],
                                                   e.variables, refs, e.output_constrains, h))
                        /\ heap' = HeapAfterContext(h, e.output_constrains, e.variables)
                        /\ UNCHANGED completed_events
    /\ UNCHANGED <<operations, variables, compiled, panicked, construction>>

\* Vm::run_event; the handle is GUID::default(), a guid never produced before
RunEvent(name, inputs) ==
    /\ ~panicked /\ Idle
    /\ LET error == RunEventError(name, inputs)
           e == ast.events[FindName(ast.events, name)]
           guid == next_guid + 1
           h == AllocAll(heap, inputs)
           refs == [i \in DOMAIN inputs |-> Len(heap) + i]
       IN  IF error # ""
           THEN /\ last' = [Last("run_event", error, 0) EXCEPT !.args = <<name, inputs>>]
                /\ UNCHANGED <<running_events, completed_events, heap, next_guid, issued>>
           ELSE /\ next_guid < MaxEvents
                /\ next_guid' = guid
                /\ issued' = MapInsert(issued, guid,
                                        [name |-> name, inputs |-> inputs, reported |-> FALSE])
                /\ last' = [Last("run_event", "Ok", guid) EXCEPT !.args = <<name, inputs>>]
                /\ IF EntryAbsent(e)
                   THEN /\ completed_events' = MapInsert(completed_events, guid, <<>>)
                        /\ UNCHANGED <<running_events, heap>>
                   ELSE /\ running_events' =
                              MapInsert(running_events, guid,
                                        VmEventNew(e.guid, event_execution_order[e.guid],
                                                   e.variables, refs, e.output_constrains, h))
                        /\ heap' = HeapAfterContext(h, e.output_constrains, e.variables)
                        /\ UNCHANGED completed_events
    /\ UNCHANGED <<operations, variables, compiled, panicked, construction>>

\* destroy_event that removes the event but does not record it as completed
DestroyEventForgets(guid) ==
    /\ ~panicked /\ Idle
    /\ IF guid \in DOMAIN running_events
       THEN /\ running_events' = MapRemove(running_events, guid)
            /\ completed_events' = completed_events
            /\ last' = [Last("destroy_event", "Ok", guid)
                           EXCEPT !.returned = MapInsert(EmptyMap, guid, running_events[guid])]
       ELSE /\ last' = Last("destroy_event", "EventDoesNotExists", guid)
            /\ UNCHANGED <<running_events, completed_events>>
    /\ UNCHANGED <<operations, variables, compiled, heap, next_guid, panicked,
                   issued, construction>>

\* Vm::destroy_event
DestroyEvent(guid) ==
    /\ ~panicked /\ Idle
    /\ IF guid \in DOMAIN running_events
       THEN /\ running_events' = MapRemove(running_events, guid)
            /\ completed_events' = MapInsert(completed_events, guid, <<>>)
            /\ last' = [Last("destroy_event", "Ok", guid)
                           EXCEPT !.returned = MapInsert(EmptyMap, guid, running_events[guid])]
       ELSE /\ last' = Last("destroy_event", "EventDoesNotExists", guid)
            /\ UNCHANGED <<running_events, completed_events>>
    /\ UNCHANGED <<operations, variables, compiled, heap, next_guid, panicked,
                   issued, construction>>

\* the handles of `returned` marked as reported to the host
MarkReported(returned) ==
    [h \in DOMAIN issued |->
        IF h \in DOMAIN returned THEN [issued[h] EXCEPT !.reported = TRUE] ELSE issued[h]]

\* get_completed_events that iterates the map without replacing it by an empty one
GetCompletedEventsKeepsMap ==
    /\ ~panicked /\ Idle
    /\ completed_events' = completed_events
    /\ last' = [Last("get_completed_events", "Ok", 0) EXCEPT !.returned = completed_events]
    /\ issued' = MarkReported(completed_events)
    /\ UNCHANGED <<operations, variables, running_events, compiled, heap, next_guid,
                   panicked, construction>>

\* Vm::get_completed_events: mem::replace leaves an empty map and the old one is returned
GetCompletedEvents ==
    /\ ~panicked /\ Idle
    /\ completed_events' = EmptyMap
    /\ last' = [Last("get_completed_events", "Ok", 0) EXCEPT !.returned = completed_events]
    /\ issued' = MarkReported(completed_events)
    /\ UNCHANGED <<operations, variables, running_events, compiled, heap, next_guid,
                   panicked, construction>>

\* ProcessOne whose error arm skips the remaining events instead of putting them back
ProcessOneDropsRest(st, key, event, r) ==
    IF st.error # ""
    THEN [st EXCEPT !.outcomes = MapInsert(@, key, "Untouched")]
    ELSE CASE r.status = "Halt" ->
                [st EXCEPT !.running = MapInsert(@, key, r.ev),
                           !.heap = r.heap,
                           !.outcomes = MapInsert(@, key, "Halt")]
           [] r.status = "Stop" ->
                [st EXCEPT !.completed = MapInsert(@, key, r.ev.outputs),
                           !.heap = r.heap,
                           !.stopped = MapInsert(@, key, r.ev),
                           !.outcomes = MapInsert(@, key, "Stop")]
           [] r.status = "Err" ->
                [st EXCEPT !.error = r.err,
                           !.heap = r.heap,
                           !.outcomes = MapInsert(@, key, "Err")]
           [] OTHER ->
                [st EXCEPT !.panic = TRUE,
                           !.outcomes = MapInsert(@, key, r.status)]

\* one turn of the loop of process_events (514-529): st is [running, completed,
\* heap, error, outcomes, stopped, panic]; r is what process_event returned for
\* `event`, read only while no error is pending
ProcessOne(st, key, event, r) ==
    IF st.error # ""
    THEN [st EXCEPT !.running = MapInsert(@, key, event),
                    !.outcomes = MapInsert(@, key, "Untouched")]
    ELSE CASE r.status = "Halt" ->
                [st EXCEPT !.running = MapInsert(@, key, r.ev),
                           !.heap = r.heap,
                           !.outcomes = MapInsert(@, key, "Halt")]
           [] r.status = "Stop" ->
                [st EXCEPT !.completed = MapInsert(@, key, r.ev.outputs),
                           !.heap = r.heap,
                           !.stopped = MapInsert(@, key, r.ev),
                           !.outcomes = MapInsert(@, key, "Stop")]
           [] r.status = "Err" ->
                [st EXCEPT !.error = r.err,
                           !.heap = r.heap,
                           !.outcomes = MapInsert(@, key, "Err")]
           [] OTHER ->
                [st EXCEPT !.panic = TRUE,
                           !.outcomes = MapInsert(@, key, r.status)]

\* the loop over the drained map, in iteration order
RECURSIVE ProcessLoop(_, _, _, _)
ProcessLoop(events, order, i, st) ==
    IF i > Len(order) \/ st.panic THEN st
    ELSE ProcessLoop(events, order, i + 1,
            ProcessOne(st, order[i], events[order[i]],
                       IF st.error # "" THEN R("", "", events[order[i]], st.heap)
                       ELSE process_event(events[order[i]], st.heap, MaxSteps)))

\* the Vm after process_events, from the state st the loop ends in
ProcessEventsDone(order, st) ==
    /\ running_events' = st.running
    /\ completed_events' = st.completed
    /\ heap' = st.heap
    /\ panicked' = st.panic
    /\ last' = [Last("process_events",
                     IF st.panic THEN "panic"
                     ELSE IF st.error # "" THEN st.error ELSE "Ok", 0)
                   EXCEPT !.order = order, !.outcomes = st.outcomes,
                          !.returned = st.stopped]

\* Vm::process_events; a HashMap iterates in an order the program does not choose
ProcessEvents(order) ==
    /\ ~panicked /\ Idle
    /\ ProcessEventsDone(order,
            ProcessLoop(running_events, order, 1,
                [running |-> EmptyMap, completed |-> completed_events, heap |-> heap,
                 error |-> "", outcomes |-> EmptyMap, stopped |-> EmptyMap,
                 panic |-> FALSE]))
    /\ UNCHANGED <<operations, variables, compiled, next_guid, issued, construction>>

\* single_step_event that steps the event a second time while it can continue
SingleStepDoneTwice(guid, r) ==
    LET r2 == IF r.status = "Continue" THEN step_event(r.ev, r.heap) ELSE r
    IN  /\ running_events' =
              IF r2.status \in {"Continue", "Halt", "Stop"}
              THEN [running_events EXCEPT ![guid] = r2.ev]
              ELSE MapRemove(running_events, guid)
        /\ heap' = r2.heap
        /\ panicked' = (r2.status = "Panic")
        /\ last' = [Last("single_step_event",
                         CASE r2.status = "Err" -> r2.err
                           [] r2.status = "Panic" -> "panic"
                           [] OTHER -> "Ok", guid)
                       EXCEPT !.outcomes = MapInsert(EmptyMap, guid, r.status)]

\* the Vm after single_step_event(guid) whose step_event returned r (538-541): on
\* Err the `?` returns before the event is put back
SingleStepDone(guid, r) ==
    /\ running_events' =
          IF r.status \in {"Continue", "Halt", "Stop"}
          THEN [running_events EXCEPT ![guid] = r.ev]
          ELSE MapRemove(running_events, guid)
    /\ heap' = r.heap
    /\ panicked' = (r.status = "Panic")
    /\ last' = [Last("single_step_event",
                     CASE r.status = "Err" -> r.err
                       [] r.status = "Panic" -> "panic"
                       [] OTHER -> "Ok", guid)
                   EXCEPT !.outcomes = MapInsert(EmptyMap, guid, r.status)]

\* single_step_event that moves an event without current node to the completed map
SingleStepEventCompletes(guid) ==
    /\ ~panicked /\ Idle
    /\ IF guid \in DOMAIN running_events
       THEN IF get_current_node(running_events[guid]).some
            THEN /\ SingleStepDone(guid, step_event(running_events[guid], heap))
                 /\ UNCHANGED completed_events
            ELSE /\ running_events' = MapRemove(running_events, guid)
                 /\ completed_events' =
                        MapInsert(completed_events, guid, running_events[guid].outputs)
                 /\ last' = [Last("single_step_event", "Ok", guid)
                                EXCEPT !.outcomes = MapInsert(EmptyMap, guid, "Stop")]
                 /\ UNCHANGED <<heap, panicked>>
       ELSE /\ last' = Last("single_step_event", "EventDoesNotExists", guid)
            /\ UNCHANGED <<running_events, completed_events, heap, panicked>>
    /\ UNCHANGED <<operations, variables, compiled, next_guid, issued, construction>>

\* Vm::single_step_event
SingleStepEvent(guid) ==
    /\ ~panicked /\ Idle
    /\ IF guid \in DOMAIN running_events
       THEN SingleStepDone(guid, step_event(running_events[guid], heap))
       ELSE /\ last' = Last("single_step_event", "EventDoesNotExists", guid)
            /\ UNCHANGED <<running_events, heap, panicked>>
    /\ UNCHANGED <<operations, variables, completed_events, compiled, next_guid,
                   issued, construction>>

(***************************************************************************)
(* The main specification: the Vm built from Program, driven by the host.  *)
(***************************************************************************)
\* the fields of the Vm are those of the value vm that Vm::new returned
IsVm(vm) ==
    /\ operations = vm.operations
    /\ variables = vm.variables
    /\ event_execution_order = vm.event_execution_order
    /\ method_execution_order = vm.method_execution_order
    /\ function_execution_order = vm.function_execution_order
    /\ type_methods = vm.type_methods
    /\ end_nodes = vm.end_nodes

\* the state after Vm::new(Program) returned Ok; the host has allocated the
\* Reference HostRef to Number(1)
Init ==
    /\ ast = Program
    /\ new_result = NewStatus(ast)
    /\ new_result = "Ok"
    /\ \E vm \in NewVm(ast) : IsVm(vm) /\ heap = Append(vm.heap, VNumber(1))
    /\ running_events = EmptyMap
    /\ completed_events = EmptyMap
    /\ next_guid = 0
    /\ panicked = FALSE
    /\ last = Last("idle", "", 0)
    /\ issued = EmptyMap

Next ==
    \/ \E name \in NativeNames : RegisterOperation(name)
    \/ \E name \in NativeNames : UnregisterOperator(name)
    \/ \E reference \in {Guid("g"), Named("g"), Named("nope")} :
            SetGlobalVariableValue(reference, HostRef)
    \/ \E name \in EventNames, inputs \in InputChoices : RunEvent(name, inputs)
    \/ \E guid \in Handles : DestroyEvent(guid)
    \/ GetCompletedEvents
    \/ \E order \in Perms(DOMAIN running_events) : ProcessEvents(order)
    \/ \E guid \in Handles : SingleStepEvent(guid)
    \/ HostReturn

Spec == Init /\ [][Next]_vars

(***************************************************************************)
(* Properties of the host's calls.                                         *)
(***************************************************************************)
\* the event of the program that run_event(name, ..) finds
EventNamed(name) == ast.events[FindName(ast.events, name)]

\* the Values behind a list of References
Deref(refs) == [i \in DOMAIN refs |-> heap[refs[i]]]

\* handle h was returned by run_event(name, inputs)
IssuedAs(h, name, inputs) ==
    /\ h \in DOMAIN issued
    /\ issued[h].name = name
    /\ Len(issued[h].inputs) = Len(inputs)
    /\ issued[h].inputs = inputs

\* C1: whenever a step of an event fails with an error, driven by single_step_event
\* or by process_events, the failing event's handle is still in the running set
\* when the call has returned, and is not in the completed map
C1_FailedEventStaysRunning ==
    last.op \in {"single_step_event", "process_events"} =>
        \A h \in DOMAIN last.outcomes :
            last.outcomes[h] = "Err" =>
                h \in DOMAIN running_events /\ h \notin DOMAIN completed_events

\* C2: Scenario A: with the native "add" registered, an event started by
\* run_event("ev_add", [2, 3]) that process_events drives ends in the completed map
\* with outputs [5], and no step of it returns an error
C2_ScenarioACompletesWithFive ==
    (last.op = "process_events" /\ "add" \in operations) =>
        \A h \in DOMAIN last.outcomes :
            (IssuedAs(h, "ev_add", <<VNumber(2), VNumber(3)>>)
             /\ last.outcomes[h] # "Untouched") =>
                /\ last.outcomes[h] = "Stop"
                /\ h \in DOMAIN completed_events
                /\ Deref(completed_events[h]) = <<VNumber(5)>>

\* C5: when process_events returns Ok, every event that was running at the start of
\* the call has been driven once and is in exactly one place: still running because
\* it stopped at a Halt node, or completed with its outputs because its root
\* context was exhausted
C5_ProcessedEventsRunningOrCompleted ==
    (last.op = "process_events" /\ last.result = "Ok") =>
        \A h \in Range(last.order) :
            /\ h \in DOMAIN last.outcomes
            /\ \/ /\ last.outcomes[h] = "Halt"
                  /\ h \in DOMAIN running_events
                  /\ h \notin DOMAIN completed_events
               \/ /\ last.outcomes[h] = "Stop"
                  /\ h \in DOMAIN completed_events
                  /\ h \notin DOMAIN running_events
                  /\ last.returned[h].contexts = <<>>
                  /\ completed_events[h] = last.returned[h].outputs
                  /\ Len(completed_events[h]) = EventNamed(issued[h].name).output_constrains

\* C1 is refuted from run_event("ev_if", [String]) followed by process_events;
\* C2 from register_operation("add"), run_event("ev_add", [2, 3]), process_events;
\* C5 from run_event("ev_method", []) followed by process_events

\* C6: when an event fails during process_events, the events before it in the
\* iteration order were driven, every event after it is left in the running set
\* exactly as it was before the call and is not completed, and the call returns
\* the error of the failing event
C6_UnprocessedEventsUntouched ==
    [][(Idle /\ last'.op = "process_events" /\ last'.result \notin {"Ok", "panic"}) =>
        \E i \in DOMAIN last'.order :
            /\ last'.outcomes[last'.order[i]] = "Err"
            /\ \A j \in 1..(i - 1) : last'.outcomes[last'.order[j]] \in {"Halt", "Stop"}
            /\ \A j \in (i + 1)..Len(last'.order) :
                    /\ last'.order[j] \in DOMAIN running_events'
                    /\ running_events'[last'.order[j]] = running_events[last'.order[j]]
                    /\ last'.order[j] \notin DOMAIN completed_events'
            /\ i = 1 =>
                 last'.result = process_event(running_events[last'.order[1]], heap, MaxSteps).err
      ]_vars

\* C6 witness: process_events failed on one event and left an event that had
\* already run up to a Halt in the running set
C6_Witness ==
    /\ last.op = "process_events"
    /\ last.result \notin {"Ok", "panic"}
    /\ \E h \in DOMAIN last.outcomes :
            /\ last.outcomes[h] = "Untouched"
            /\ h \in DOMAIN running_events
            /\ running_events[h].contexts[1].current > 0

\* C7: run_event with an unknown event name, or with a number of inputs other than
\* the event's declared input count, returns an error and leaves the running set,
\* the completed map and the global variable store unchanged
C7_RejectedRunEventChangesNothing ==
    [][(Idle /\ last'.op = "run_event"
        /\ (\/ FindName(ast.events, last'.args[1]) = 0
            \/ EventNamed(last'.args[1]).input_constrains # Len(last'.args[2]))) =>
        /\ last'.result =
              IF FindName(ast.events, last'.args[1]) = 0
              THEN "CouldNotRunEvent" ELSE "WrongNumberOfInputs"
        /\ running_events' = running_events
        /\ completed_events' = completed_events
        /\ variables' = variables
        /\ heap' = heap
      ]_vars

\* C7 witness: run_event was refused for its input count while the Vm held a running
\* and a completed event
C7_Witness ==
    /\ last.op = "run_event"
    /\ last.result = "WrongNumberOfInputs"
    /\ DOMAIN running_events # {}
    /\ DOMAIN completed_events # {}

\* C8: a successful run_event on an event with an entry node returns a handle that
\* was neither running nor completed nor ever returned before, adds exactly that
\* handle to the running set with one root context at index 0 of the event's
\* compiled order and an empty cache, and changes no other event, no completed
\* entry, no global variable and no existing Value
C8_RunEventAddsOneFreshRootContext ==
    [][(Idle /\ last'.op = "run_event" /\ last'.result = "Ok"
        /\ EventNamed(last'.args[1]).entry_node.t # "None") =>
        /\ last'.handle \notin DOMAIN running_events
        /\ last'.handle \notin DOMAIN completed_events
        /\ last'.handle \notin DOMAIN issued
        /\ DOMAIN running_events' = DOMAIN running_events \cup {last'.handle}
        /\ \A g \in DOMAIN running_events : running_events'[g] = running_events[g]
        /\ Len(running_events'[last'.handle].contexts) = 1
        /\ running_events'[last'.handle].contexts[1].owner =
              OwnerEvent(EventNamed(last'.args[1]).guid)
        /\ running_events'[last'.handle].contexts[1].current = 0
        /\ running_events'[last'.handle].contexts[1].execution =
              event_execution_order[EventNamed(last'.args[1]).guid]
        /\ running_events'[last'.handle].contexts[1].node_outputs = EmptyMap
        /\ running_events'[last'.handle].outputs = <<>>
        /\ completed_events' = completed_events
        /\ variables' = variables
        /\ operations' = operations
        /\ \A r \in DOMAIN heap : heap'[r] = heap[r]
      ]_vars

\* C8 witness: run_event succeeded beside an event that was already running
\* and had executed nodes
C8_Witness ==
    /\ last.op = "run_event"
    /\ last.result = "Ok"
    /\ last.handle \in DOMAIN running_events
    /\ \E g \in DOMAIN running_events \ {last.handle} :
            running_events[g].contexts[1].node_outputs # EmptyMap

\* C9: the handle run_event returns for an event without entry node is in the
\* completed map with no outputs when the call returns, and it is never in the
\* running set
C9_EntrylessEventCompletesAtOnce ==
    \A h \in DOMAIN issued :
        EventNamed(issued[h].name).entry_node.t = "None" =>
            /\ h \notin DOMAIN running_events
            /\ (last.op = "run_event" /\ last.handle = h) =>
                    h \in DOMAIN completed_events /\ completed_events[h] = <<>>

\* C9 witness: run_event("ev_empty", []) has just returned a handle
C9_Witness ==
    /\ last.op = "run_event"
    /\ last.result = "Ok"
    /\ last.handle \in DOMAIN issued
    /\ issued[last.handle].name = "ev_empty"
    /\ last.handle \in DOMAIN completed_events

\* C10: destroy_event(h) on a running handle returns Ok, removes h from the running
\* set and records it as completed with no outputs, whatever its context stack; on
\* any other handle it returns EventDoesNotExists and changes nothing
C10_DestroyEventMovesOrRefuses ==
    [][(Idle /\ last'.op = "destroy_event") =>
        IF last'.handle \in DOMAIN running_events
        THEN /\ last'.result = "Ok"
             /\ DOMAIN running_events' = DOMAIN running_events \ {last'.handle}
             /\ \A g \in DOMAIN running_events' : running_events'[g] = running_events[g]
             /\ DOMAIN completed_events' = DOMAIN completed_events \cup {last'.handle}
             /\ completed_events'[last'.handle] = <<>>
             /\ \A g \in DOMAIN completed_events \ {last'.handle} :
                    completed_events'[g] = completed_events[g]
             /\ UNCHANGED <<operations, variables, heap>>
        ELSE /\ last'.result = "EventDoesNotExists"
             /\ UNCHANGED <<operations, variables, running_events, completed_events, heap>>
      ]_vars

\* C10 witness: destroy_event removed an event that was inside a function call, with
\* two contexts on its stack
C10_Witness ==
    /\ last.op = "destroy_event"
    /\ last.result = "Ok"
    /\ Len(last.returned[last.handle].contexts) = 2
    /\ last.handle \in DOMAIN completed_events

\* what a get_completed_events step does: it returns the whole map, leaves an
\* empty one, and returns no handle an earlier call has returned
DrainStep ==
    (Idle /\ last'.op = "get_completed_events") =>
        /\ last'.returned = completed_events
        /\ completed_events' = EmptyMap
        /\ \A h \in DOMAIN completed_events :
                /\ h \in DOMAIN issued
                /\ ~issued[h].reported
                /\ issued'[h].reported

\* a handle an earlier call has returned is never recorded as completed again
NoLateEntry ==
    \A h \in DOMAIN completed_events' :
        h \in DOMAIN issued /\ issued[h].reported => h \in DOMAIN completed_events

\* C11: get_completed_events returns every entry recorded since the previous
\* call and leaves the map empty, so that a second call with no operation in
\* between returns nothing; no handle is returned by two calls, and a handle
\* once returned is neither running nor recorded as completed again.
C11_DrainReturnsEachHandleOnce ==
    /\ [](last.op = "get_completed_events" => completed_events = EmptyMap)
    /\ [](\A h \in DOMAIN issued :
            issued[h].reported =>
                h \notin DOMAIN completed_events /\ h \notin DOMAIN running_events)
    /\ [][DrainStep /\ NoLateEntry]_vars

\* a second drain has just returned a handle, after an earlier drain returned another
C11_Witness ==
    /\ last.op = "get_completed_events"
    /\ DOMAIN last.returned # {}
    /\ \E h \in DOMAIN issued : issued[h].reported /\ h \notin DOMAIN last.returned
    /\ completed_events = EmptyMap

\* a single_step_event call acts in this step
SingleStepActs == Idle /\ last'.op = "single_step_event"

\* the call leaves the other running events, the completed map, the global
\* variables and the registered operations as they were, and adds no handle
SingleStepFrame ==
    /\ \A g \in DOMAIN running_events \ {last'.handle} :
            g \in DOMAIN running_events' /\ running_events'[g] = running_events[g]
    /\ DOMAIN running_events' \subseteq DOMAIN running_events
    /\ completed_events' = completed_events
    /\ variables' = variables
    /\ operations' = operations

\* the cache of context i of the event differs between before and after at key g
CacheDiffers(before, after, i, g) ==
    \/ (g \in DOMAIN before.contexts[i].node_outputs)
            # (g \in DOMAIN after.contexts[i].node_outputs)
    \/ /\ g \in DOMAIN before.contexts[i].node_outputs
       /\ g \in DOMAIN after.contexts[i].node_outputs
       /\ before.contexts[i].node_outputs[g] # after.contexts[i].node_outputs[g]

\* between `before` and `after` one node has acted, the one with guid `node`
\* at the top of `before`: at most one context was pushed, and a cache differs
\* only under that node in the top context, or, in a context below, under the
\* call node of a context that ended with the step
OneNodeActed(before, after, node) ==
    LET k == Len(before.contexts)
        k2 == Len(after.contexts)
    IN  /\ k2 <= k + 1
        /\ \A i \in 1..(IF k2 < k THEN k2 ELSE k) :
              \A g \in DOMAIN before.contexts[i].node_outputs
                        \cup DOMAIN after.contexts[i].node_outputs :
                 CacheDiffers(before, after, i, g) =>
                    \/ i = k /\ g = node
                    \/ /\ i < k
                       /\ \E j \in (i + 1)..k :
                              g = before.contexts[j].caller_node /\ k2 < j

\* the step of a running handle executed the node at its instruction pointer, and
\* only it
SteppedOneNode(h) ==
    /\ get_current_node(running_events[h]).some
    /\ last'.outcomes[h] # "Stop"
    /\ h \in DOMAIN running_events' =>
            OneNodeActed(running_events[h], running_events'[h],
                         get_current_node(running_events[h]).node.guid)

\* the call refused a handle that is not running, and changed nothing
SingleStepRefused ==
    /\ last'.result = "EventDoesNotExists"
    /\ UNCHANGED <<vm_fields, heap>>

\* C12 as stated: single_step_event on a running handle executes exactly one
\* node of that event, the one at the top context's instruction pointer, and
\* leaves every other running event and the completed map unchanged; on a
\* handle that is not running it returns EventDoesNotExists and changes nothing.
C12_SingleStepExecutesOneNode ==
    [][SingleStepActs =>
          /\ SingleStepFrame
          /\ IF last'.handle \in DOMAIN running_events
             THEN SteppedOneNode(last'.handle)
             ELSE SingleStepRefused]_vars

\* C12, amended: on a running handle with a node at the top context's
\* instruction pointer the call executes that node and no other; on a running
\* handle with no such node it executes nothing, returns Ok and changes nothing;
\* in both cases every other running event and the completed map are unchanged;
\* on a handle that is not running it returns EventDoesNotExists and changes
\* nothing.
C12_SingleStepExecutesCurrentNodeIfAny ==
    [][SingleStepActs =>
          /\ SingleStepFrame
          /\ IF last'.handle \in DOMAIN running_events
             THEN IF get_current_node(running_events[last'.handle]).some
                  THEN SteppedOneNode(last'.handle)
                  ELSE /\ last'.result = "Ok"
                       /\ UNCHANGED <<vm_fields, heap>>
             ELSE SingleStepRefused]_vars

\* a step has just executed a node that cached its output, beside another running event
C12_Witness ==
    /\ last.op = "single_step_event"
    /\ last.result = "Ok"
    /\ last.outcomes[last.handle] = "Continue"
    /\ HasContext(running_events[last.handle])
    /\ DOMAIN Top(running_events[last.handle]).node_outputs # {}
    /\ \E g \in DOMAIN running_events : g # last.handle

(***************************************************************************)
(* The compiler alone: Vm::new applied to the programs of a bounded family. *)
(***************************************************************************)
\* nodes of the generated event
MaxNodes == 3

\* guids and names of the nodes of the generated construct c
NodeGuids(c) ==
    CASE c = "e" -> <<"e1", "e2", "e3", "e4">>
      [] c = "f" -> <<"f1", "f2", "f3", "f4">>
      [] c = "m" -> <<"m1", "m2", "m3", "m4">>
      [] OTHER -> <<"o1", "o2", "o3", "o4">>

NodeNames == <<"a", "b", "c", "d">>

\* the next_node of a generated node: none, any node of the construct by guid, the
\* second node by name, a name and a guid that no node has
NextChoices(c, n) ==
    {RefNone, Named(NodeNames[2]), Named("zz"), Guid("zz")}
        \cup {Guid(NodeGuids(c)[j]) : j \in 1..n}

\* the input_links of a generated node
LinkChoices(c, n) ==
    { <<>>, <<NodeIndexed(NodeGuids(c)[1], 0)>>,
      <<LinkNone, NodeIndexed(NodeGuids(c)[n], 0)>> }

\* every construct body of n nodes over those choices
NodeGraphs(c, n) ==
    {[i \in 1..n |-> Node(NodeGuids(c)[i], NodeNames[i], Entry, nx[i], ln[i])] :
        nx \in [1..n -> NextChoices(c, n)], ln \in [1..n -> LinkChoices(c, n)]}

\* four bodies of two nodes: a chain, a cycle through a data dependency, a name
\* that does not resolve, a guid that does not resolve
SmallGraphs(c) ==
    { << Node(NodeGuids(c)[1], "a", Entry, Guid(NodeGuids(c)[2]), <<>>),
         Node(NodeGuids(c)[2], "b", Entry, RefNone, <<NodeIndexed(NodeGuids(c)[1], 0)>>) >>,
      << Node(NodeGuids(c)[1], "a", Entry, Guid(NodeGuids(c)[2]),
              <<NodeIndexed(NodeGuids(c)[2], 0)>>),
         Node(NodeGuids(c)[2], "b", Entry, RefNone, <<>>) >>,
      << Node(NodeGuids(c)[1], "a", Entry, Named("zz"), <<>>),
         Node(NodeGuids(c)[2], "b", Entry, RefNone, <<>>) >>,
      << Node(NodeGuids(c)[1], "a", Entry, RefNone, <<NodeIndexed("zz", 0)>>),
         Node(NodeGuids(c)[2], "b", Entry, RefNone, <<>>) >> }

\* a program of one event, one function, trait Tr with method m, and type T that
\* implements trait_ref with the methods `own`
GenProgram(e_nodes, f_nodes, m_nodes, trait_ref, own) ==
    MkProgram(<<Event("e", "e", Guid("e1"), e_nodes, <<>>, 0, 0)>>,
              <<Function("f", "f", f_nodes, <<>>, 0, 0)>>,
              <<Type("t", "T", << <<trait_ref, own>> >>)>>,
              <<Trait("tr", "Tr", <<Function("tr.m", "m", m_nodes, <<>>, 0, 0)>>)>>,
              <<Variable("g", "g")>>,
              <<>>)

OkGraph(c) ==
    << Node(NodeGuids(c)[1], "a", Entry, Guid(NodeGuids(c)[2]), <<>>),
       Node(NodeGuids(c)[2], "b", Entry, RefNone, <<NodeIndexed(NodeGuids(c)[1], 0)>>) >>

\* the programs handed to Vm::new: every event body of MaxNodes nodes beside sound
\* constructs, and every combination of the small bodies, of a trait reference that
\* resolves or not, and of a type that overrides m or not
Programs ==
    {GenProgram(e, OkGraph("f"), OkGraph("m"), Named("Tr"), <<>>) :
        e \in NodeGraphs("e", MaxNodes)}
    \cup {GenProgram(e, f, m, tref, <<>>) :
            e \in SmallGraphs("e"), f \in SmallGraphs("f"), m \in SmallGraphs("m"),
            tref \in {Guid("tr"), Named("zz")}}
    \cup {GenProgram(e, OkGraph("f"), m, Named("Tr"),
                     <<Function("t.m", "m", o, <<>>, 0, 0)>>) :
            e \in SmallGraphs("e"), m \in SmallGraphs("m"), o \in SmallGraphs("o")}

\* before Vm::new is called: the host holds a program and no Vm
InitCompile ==
    /\ ast \in Programs
    /\ new_result = "none"
    /\ operations = {}
    /\ variables = EmptyMap
    /\ running_events = EmptyMap
    /\ completed_events = EmptyMap
    /\ event_execution_order = EmptyMap
    /\ method_execution_order = EmptyMap
    /\ function_execution_order = EmptyMap
    /\ type_methods = EmptyMap
    /\ end_nodes = {}
    /\ heap = <<>>
    /\ next_guid = 0
    /\ panicked = FALSE
    /\ last = Last("idle", "", 0)
    /\ issued = EmptyMap

\* Vm::new(ast): Ok with one of the Vm values, or an error or a panic and no Vm
VmNew ==
    /\ new_result = "none"
    /\ new_result' = NewStatus(ast)
    /\ panicked' = (NewStatus(ast) = "panic")
    /\ IF NewStatus(ast) = "Ok"
       THEN \E vm \in NewVm(ast) :
                /\ operations' = vm.operations
                /\ variables' = vm.variables
                /\ heap' = vm.heap
                /\ event_execution_order' = vm.event_execution_order
                /\ method_execution_order' = vm.method_execution_order
                /\ function_execution_order' = vm.function_execution_order
                /\ type_methods' = vm.type_methods
                /\ end_nodes' = vm.end_nodes
       ELSE UNCHANGED <<operations, variables, heap, compiled>>
    /\ UNCHANGED <<running_events, completed_events, next_guid, last, issued, ast>>

NextCompile == VmNew

SpecCompile == InitCompile /\ [][NextCompile]_vars

(***************************************************************************)
(* Properties of the compiler.                                             *)
(***************************************************************************)
Guids(nodes) == {n.guid : n \in Range(nodes)}

\* the guid the next_node of n designates among nodes, "" when it designates none
NextGuid(nodes, n) ==
    IF n.next_node.t = "Guid" /\ n.next_node.id \in Guids(nodes) THEN n.next_node.id
    ELSE IF n.next_node.t = "Named" /\ \E m \in Range(nodes) : m.name = n.next_node.id
    THEN nodes[CHOOSE i \in DOMAIN nodes :
                    /\ nodes[i].name = n.next_node.id
                    /\ \A j \in 1..(i - 1) : nodes[j].name # n.next_node.id].guid
    ELSE ""

\* the node -> next_node dependencies of a construct
NextDependencies(nodes) ==
    {<<n.guid, NextGuid(nodes, n)>> : n \in {m \in Range(nodes) : NextGuid(nodes, m) # ""}}

\* the producer -> consumer dependencies of a construct
DataDependencies(nodes) ==
    {d \in Guids(nodes) \X Guids(nodes) :
        \E n \in Range(nodes) :
            /\ n.guid = d[2]
            /\ \E i \in DOMAIN n.input_links :
                    n.input_links[i].t = "NodeIndexed" /\ n.input_links[i].node = d[1]}

Dependencies(nodes) == NextDependencies(nodes) \cup DataDependencies(nodes)

\* every next_node and every input link of the construct designates one of its nodes
NodesResolve(nodes) ==
    \A n \in Range(nodes) :
        /\ n.next_node.t # "None" => NextGuid(nodes, n) # ""
        /\ \A i \in DOMAIN n.input_links :
                n.input_links[i].t = "NodeIndexed" => n.input_links[i].node \in Guids(nodes)

\* the nodes reachable from the set S along the dependencies D
RECURSIVE ReachableFrom(_, _)
ReachableFrom(D, S) ==
    IF {d[2] : d \in {x \in D : x[1] \in S}} \subseteq S THEN S
    ELSE ReachableFrom(D, S \cup {d[2] : d \in {x \in D : x[1] \in S}})

HasCycle(nodes) ==
    \E d \in Dependencies(nodes) : d[1] \in ReachableFrom(Dependencies(nodes), {d[2]})

\* every trait a type says it implements is a trait of the program
TraitsResolve(prog) ==
    \A t \in Range(prog.types) : \A k \in DOMAIN t.traits_implementation :
        \E tr \in Range(prog.traits) :
            \/ t.traits_implementation[k][1].t = "Guid"
               /\ t.traits_implementation[k][1].id = tr.guid
            \/ t.traits_implementation[k][1].t = "Named"
               /\ t.traits_implementation[k][1].id = tr.name

\* the node lists Vm::new compiles: of every event, every function, and for every
\* type the body chosen for each method of the traits it implements
CompiledBodies(prog) ==
    {e.nodes : e \in Range(prog.events)}
    \cup {f.nodes : f \in Range(prog.functions)}
    \cup {m.method.nodes : m \in Range(MethodsToCompile(prog))}

\* order is a permutation of the nodes that puts every dependency before its dependent
RespectsDependencies(nodes, order) ==
    /\ Len(order) = Len(nodes)
    /\ Range(order) = Guids(nodes)
    /\ \A d \in Dependencies(nodes) :
            \E i, j \in DOMAIN order : i < j /\ order[i] = d[1] /\ order[j] = d[2]

\* Vm::new returned no Vm
NoVm ==
    /\ event_execution_order = EmptyMap
    /\ method_execution_order = EmptyMap
    /\ function_execution_order = EmptyMap
    /\ type_methods = EmptyMap
    /\ variables = EmptyMap
    /\ end_nodes = {}

\* C3: when every trait reference resolves and the node graph of every event,
\* function and compiled method is fully resolvable and acyclic, Vm::new succeeds
\* and every compiled execution order is a permutation of the construct's nodes
\* with every node after the nodes it data-depends on and before its next_node
C3_AcyclicGraphsCompileInDependencyOrder ==
    (/\ new_result # "none"
     /\ TraitsResolve(ast)
     /\ \A b \in CompiledBodies(ast) : NodesResolve(b) /\ ~HasCycle(b)) =>
        /\ new_result = "Ok"
        /\ \A e \in Range(ast.events) :
                /\ e.guid \in DOMAIN event_execution_order
                /\ RespectsDependencies(e.nodes, event_execution_order[e.guid])
        /\ \A f \in Range(ast.functions) :
                /\ f.guid \in DOMAIN function_execution_order
                /\ RespectsDependencies(f.nodes, function_execution_order[f.guid])
        /\ \A m \in Range(MethodsToCompile(ast)) :
                /\ <<m.type_guid, m.method.guid>> \in DOMAIN method_execution_order
                /\ RespectsDependencies(m.method.nodes,
                        method_execution_order[<<m.type_guid, m.method.guid>>])

\* C3 witness: Vm::new compiled an event whose first listed node consumes the
\* output of its last listed node, so the compiled order departs from the listing
C3_Witness ==
    /\ new_result = "Ok"
    /\ <<"e3", "e1">> \in DataDependencies(ast.events[1].nodes)
    /\ NextDependencies(ast.events[1].nodes) # {}
    /\ event_execution_order["e"][1] # "e1"

C20_UnresolvedNodeReferenceIsAnError ==
    (new_result # "none" /\ \E b \in CompiledBodies(ast) : ~NodesResolve(b)) =>
        /\ ~panicked
        /\ new_result \notin {"Ok", "panic"}
        /\ NoVm
        /\ (TraitsResolve(ast) /\ \A b \in CompiledBodies(ast) : ~HasCycle(b)) =>
                new_result = "NodeDoesNotExists"

(***************************************************************************)
(* Documents: the Vm built from a program whose event converts a literal   *)
(* document into a Value and outputs it.                                   *)
(***************************************************************************)
\* events the host starts in the specifications of documents, reads, loops and
\* operations
MaxRuns == 1

\* entries of a sequence or of a mapping of the documents
MaxLen == 2

Scalars == {PNull, PBool(TRUE), PNumber(1), PString("s")}

\* the keys of a mapping: two Strings and one that is not a String
DocKeys == {PString("a"), PString("b"), PNumber(1)}

\* sequences of at most MaxLen documents of D, and mappings of at most MaxLen
\* entries with distinct keys and values of D
Sequences(D) == {PSequence(items) : items \in UNION {[1..n -> D] : n \in 0..MaxLen}}

Mappings(D) ==
    {PMapping(pairs) :
        pairs \in {q \in UNION {[1..n -> DocKeys \X D] : n \in 0..MaxLen} :
                      \A i, j \in DOMAIN q : i # j => q[i][1] # q[j][1]}}

\* documents of one level of nesting, and those wrapped once more in a
\* sequence or in a mapping
FlatDocs == Scalars \cup Sequences(Scalars) \cup Mappings(Scalars)

Docs ==
    FlatDocs
    \cup {PSequence(<<d>>) : d \in FlatDocs}
    \cup {PSequence(<<PNumber(1), d>>) : d \in Mappings(Scalars)}
    \cup {PMapping(<< <<PString("b"), d>> >>) : d \in FlatDocs}
    \cup {PMapping(<< <<PString("b"), d>>, <<PString("a"), PNull>> >>) : d \in Mappings(Scalars)}

\* outputs the Value of the literal document doc
EvLit(doc) ==
    Event("ev_lit", "ev_lit", Named("v"),
        << Node("el.v", "v", GetValue(doc), Named("out"), <<>>),
           Node("el.out", "out", SetOutput(0), RefNone, <<NodeIndexed("el.v", 0)>>) >>,
        <<>>, 0, 1)

LitProgram(doc) == MkProgram(<<EvLit(doc)>>, <<>>, <<>>, <<>>, <<>>, <<>>)

\* the state after Vm::new returned Ok for the program of one of the documents
InitConvert ==
    /\ ast \in {LitProgram(doc) : doc \in Docs}
    /\ new_result = NewStatus(ast)
    /\ new_result = "Ok"
    /\ \E vm \in NewVm(ast) : IsVm(vm) /\ heap = vm.heap
    /\ running_events = EmptyMap
    /\ completed_events = EmptyMap
    /\ next_guid = 0
    /\ panicked = FALSE
    /\ last = Last("idle", "", 0)
    /\ issued = EmptyMap

NextConvert ==
    \/ next_guid < MaxRuns /\ RunEvent("ev_lit", <<>>)
    \/ \E order \in Perms(DOMAIN running_events) : ProcessEvents(order)
    \/ \E guid \in 1..MaxRuns : SingleStepEvent(guid)
    \/ \E reference \in DOMAIN heap : IntoPrefab(reference)
    \/ HostReturn

SpecConvert == InitConvert /\ [][NextConvert]_vars

(***************************************************************************)
(* Properties of the conversions.                                          *)
(***************************************************************************)
\* the literal document of the program
Literal == ast.events[1].nodes[1].node_type.lit

\* doc holds, at some depth, a mapping with a key that is not a String
RECURSIVE HasNonStringKey(_)
HasNonStringKey(doc) ==
    CASE doc.kind = "Sequence" -> \E i \in DOMAIN doc.val : HasNonStringKey(doc.val[i])
      [] doc.kind = "Mapping" ->
            \E i \in DOMAIN doc.val :
                doc.val[i][1].kind # "String" \/ HasNonStringKey(doc.val[i][2])
      [] OTHER -> FALSE

\* a call has just driven the event through the node that converts the literal
Converted ==
    /\ last.op \in {"single_step_event", "process_events"}
    /\ last.outcomes # EmptyMap
    /\ last.result # "EventDoesNotExists"

\* C16: converting a document that holds, at any depth, a mapping with a key
\* that is not a String yields an error value; the conversion never aborts the
\* process.
C16_NonStringKeyIsATypedError ==
    /\ ~panicked
    /\ (Converted /\ HasNonStringKey(Literal)) => last.result \notin {"Ok", "panic"}

\* the entries of a mapping whose keys are Strings, in ascending key order,
\* from position i of KeyOrder on
RECURSIVE EntriesByKey(_, _)
EntriesByKey(pairs, i) ==
    IF i > Len(KeyOrder) THEN <<>>
    ELSE IF \E j \in DOMAIN pairs : pairs[j][1] = PString(KeyOrder[i])
    THEN <<pairs[CHOOSE j \in DOMAIN pairs : pairs[j][1] = PString(KeyOrder[i])]>>
         \o EntriesByKey(pairs, i + 1)
    ELSE EntriesByKey(pairs, i + 1)

\* doc with the entries of every mapping in ascending key order
RECURSIVE KeysAscending(_)
KeysAscending(doc) ==
    CASE doc.kind = "Sequence" ->
            PSequence([i \in DOMAIN doc.val |-> KeysAscending(doc.val[i])])
      [] doc.kind = "Mapping" ->
            PMapping([i \in DOMAIN EntriesByKey(doc.val, 1) |->
                        <<EntriesByKey(doc.val, 1)[i][1],
                          KeysAscending(EntriesByKey(doc.val, 1)[i][2])>>])
      [] OTHER -> doc

EvRead ==
    Event("ev_read", "ev_read", Named("i1"),
        << Node("er.i1", "i1", GetInput(0), Named("i2"), <<>>),
           Node("er.i2", "i2", GetInput(0), Named("g1"), <<>>),
           Node("er.g1", "g1", GetGlobalVariable(Named("g")), Named("g2"), <<>>),
           Node("er.g2", "g2", GetGlobalVariable(Guid("g")), Named("x1"), <<>>),
           Node("er.x1", "x1", GetLocalVariable(Named("x")), Named("x2"), <<>>),
           Node("er.x2", "x2", GetLocalVariable(Guid("x")), Named("lit"), <<>>),
           Node("er.lit", "lit",
                GetValue(PSequence(<<PNumber(1),
                                     PMapping(<< <<PString("k"), PNumber(2)>> >>)>>)),
                Named("a1"), <<>>),
           Node("er.a1", "a1", GetListItem(1), Named("a2"), <<NodeIndexed("er.lit", 0)>>),
           Node("er.a2", "a2", GetListItem(1), Named("o1"), <<NodeIndexed("er.lit", 0)>>),
           Node("er.o1", "o1", GetObjectItem("k"), Named("o2"), <<NodeIndexed("er.a1", 0)>>),
           Node("er.o2", "o2", GetObjectItem("k"), Named("out"), <<NodeIndexed("er.a2", 0)>>),
           Node("er.out", "out", SetOutput(0), RefNone, <<NodeIndexed("er.o2", 0)>>) >>,
        <<Variable("x", "x")>>, 1, 1)

ReadProgram ==
    MkProgram(<<EvRead>>, <<>>, <<>>, <<>>, <<Variable("g", "g")>>, <<>>)

\* the references to a global variable the host passes
GlobalRefs == {Guid("g"), Named("g"), Guid("nope"), Named("nope"), RefNone}

\* the state after Vm::new(ReadProgram) returned Ok; the host holds two
\* References of its own, to Number(1) and to Number(2)
InitData ==
    /\ ast = ReadProgram
    /\ new_result = NewStatus(ast)
    /\ new_result = "Ok"
    /\ \E vm \in NewVm(ast) :
            IsVm(vm) /\ heap = Append(Append(vm.heap, VNumber(1)), VNumber(2))
    /\ running_events = EmptyMap
    /\ completed_events = EmptyMap
    /\ next_guid = 0
    /\ panicked = FALSE
    /\ last = Last("idle", "", 0)
    /\ issued = EmptyMap

NextData ==
    \/ \E reference \in GlobalRefs, value \in {HostRef, HostRef + 1} :
            SetGlobalVariableValue(reference, value)
    \/ \E reference \in GlobalRefs : GlobalVariableValue(reference)
    \/ \E inputs \in {<<VNumber(2)>>} :
            next_guid < MaxRuns /\ RunEvent("ev_read", inputs)
    \/ \E order \in Perms(DOMAIN running_events) : ProcessEvents(order)
    \/ \E guid \in 1..MaxRuns : SingleStepEvent(guid)
    \/ HostReturn

SpecData == InitData /\ [][NextData]_vars

(***************************************************************************)
(* Properties of reads.                                                    *)
(***************************************************************************)
ReadTypes == {"GetInput", "GetGlobalVariable", "GetLocalVariable",
              "GetListItem", "GetObjectItem"}

\* the Reference stored at the origin that `node` of the top context of ev reads:
\* the input slot, the global or local variable's slot, the element of the List
\* or the entry of the Object behind the node's input link
OriginOf(ev, node) ==
    CASE node.node_type.t = "GetInput" -> Top(ev).inputs[node.node_type.i + 1]
      [] node.node_type.t = "GetGlobalVariable" -> variables[ResolveGlobal(node.node_type.a)]
      [] node.node_type.t = "GetLocalVariable" ->
            Top(ev).variables[
                IF node.node_type.a.t = "Guid" THEN node.node_type.a.id
                ELSE EventNamed("ev_read").variables[
                        FindName(EventNamed("ev_read").variables, node.node_type.a.id)].guid]
      [] node.node_type.t = "GetListItem" ->
            heap[Top(ev).node_outputs[node.input_links[1].node][1]].val[node.node_type.i + 1]
      [] node.node_type.t = "GetObjectItem" ->
            heap[Top(ev).node_outputs[node.input_links[1].node][1]].val[node.node_type.key]

\* a successful step that executes a read node caches the very Reference stored
\* at the origin and creates no Value
ReadStepAliases ==
    (/\ SingleStepActs
     /\ last'.handle \in DOMAIN running_events
     /\ get_current_node(running_events[last'.handle]).some
     /\ get_current_node(running_events[last'.handle]).node.node_type.t \in ReadTypes)
    => /\ last'.result = "Ok"
       /\ last'.handle \in DOMAIN running_events'
       /\ Top(running_events'[last'.handle]).node_outputs[
              get_current_node(running_events[last'.handle]).node.guid] =
            <<OriginOf(running_events[last'.handle],
                       get_current_node(running_events[last'.handle]).node)>>
       /\ heap' = heap

\* nodes a and b of ev_read read the same origin: the same input slot, the same
\* local variable, the same element of the same List or the same key of the same
\* Object (a global may be replaced between two reads, so it is left to the step)
SameOrigin(c, a, b) ==
    /\ a.node_type.t = b.node_type.t
    /\ CASE a.node_type.t = "GetInput" -> a.node_type.i = b.node_type.i
         [] a.node_type.t = "GetLocalVariable" -> TRUE
         [] a.node_type.t = "GetListItem" ->
                /\ a.node_type.i = b.node_type.i
                /\ c.node_outputs[a.input_links[1].node] = c.node_outputs[b.input_links[1].node]
         [] a.node_type.t = "GetObjectItem" ->
                /\ a.node_type.key = b.node_type.key
                /\ c.node_outputs[a.input_links[1].node] = c.node_outputs[b.input_links[1].node]
         [] OTHER -> FALSE

\* in every context, two cached reads of the same origin hold the same Reference
ReadsAgree ==
    \A h \in DOMAIN running_events :
      \A i \in DOMAIN running_events[h].contexts :
        \A a, b \in Range(EventNamed("ev_read").nodes) :
            (/\ a.guid \in DOMAIN running_events[h].contexts[i].node_outputs
             /\ b.guid \in DOMAIN running_events[h].contexts[i].node_outputs
             /\ SameOrigin(running_events[h].contexts[i], a, b))
            => running_events[h].contexts[i].node_outputs[a.guid] =
                 running_events[h].contexts[i].node_outputs[b.guid]

\* C15: the aliasing law: a read of a global, a local, an input slot, a List
\* element or an Object key yields the Reference stored at that origin, never a
\* copy, so two reads of the same origin with no replacement in between yield
\* the same Reference.
C15_ReadsYieldTheStoredReference == []ReadsAgree /\ [][ReadStepAliases]_vars

\* the second read of the Object key has just been cached beside the first,
\* after the global was replaced by the host between its two reads
C15_Witness ==
    /\ last.op = "single_step_event"
    /\ last.handle \in DOMAIN running_events
    /\ HasContext(running_events[last.handle])
    /\ Top(running_events[last.handle]).current = 11
    /\ {"er.o1", "er.o2"} \subseteq DOMAIN Top(running_events[last.handle]).node_outputs
    /\ Top(running_events[last.handle]).node_outputs["er.g1"]
         # Top(running_events[last.handle]).node_outputs["er.g2"]

(***************************************************************************)
(* Properties of the global variables.                                     *)
(***************************************************************************)
\* the declared variables that reference r designates, by guid or by name
DeclaredBy(r) ==
    {v \in Range(ast.variables) :
        \/ r.t = "Guid" /\ r.id = v.guid
        \/ r.t = "Named" /\ r.id = v.name}

\* the guid of the declared variable r designates
GuidOf(r) == (CHOOSE v \in DeclaredBy(r) : TRUE).guid

\* set_global_variable_value(r, v): a reference to a declared variable stores v
\* in its slot and returns the Reference stored before; any other reference
\* returns GlobalVariableDoesNotExists and leaves the store as it was
SetStep ==
    \A r \in GlobalRefs, v \in {HostRef, HostRef + 1} :
        SetGlobalVariableValue(r, v) =>
            IF DeclaredBy(r) # {}
            THEN /\ last'.result = "Ok"
                 /\ last'.returned = <<variables[GuidOf(r)]>>
                 /\ variables' = [variables EXCEPT ![GuidOf(r)] = v]
            ELSE /\ last'.result = "GlobalVariableDoesNotExists"
                 /\ variables' = variables

\* global_variable_value(r): a reference to a declared variable, by guid or by
\* name, returns the Reference in its slot; any other reference returns
\* GlobalVariableDoesNotExists
GetStep ==
    \A r \in GlobalRefs :
        GlobalVariableValue(r) =>
            IF DeclaredBy(r) # {}
            THEN last'.result = "Ok" /\ last'.returned = <<variables[GuidOf(r)]>>
            ELSE last'.result = "GlobalVariableDoesNotExists" /\ last'.returned = <<>>

\* between two calls of set_global_variable_value the store does not change
StoreKept == last'.op # "set_global_variable_value" => variables' = variables

\* every variable of the store holds a Reference to None
AllNone == \A g \in DOMAIN variables : heap[variables[g]] = VNone

\* C19: the store holds exactly the declared variables, from Vm::new on; each
\* starts as a Reference to None; set_global_variable_value by guid or by name
\* stores the given Reference and returns the one stored before, and
\* global_variable_value by guid and by name returns the stored Reference
\* until the next set; with a reference that designates no declared variable
\* both return GlobalVariableDoesNotExists and the store is unchanged.
C19_GlobalStoreSetAndGet ==
    /\ AllNone
    /\ [](DOMAIN variables = {v.guid : v \in Range(ast.variables)})
    /\ [][SetStep /\ GetStep /\ StoreKept]_vars

\* after a set by name of the host's second Reference, replacing its first, a
\* get by guid has just returned it
C19_Witness ==
    /\ last.op = "global_variable_value"
    /\ last.args = <<Guid("g")>>
    /\ last.returned = <<HostRef + 1>>
    /\ variables["g"] = HostRef + 1

(***************************************************************************)
(* Loops: the Vm built from programs with Loop, Break and IfElse nodes.    *)
(***************************************************************************)
\* a loop whose body is a literal followed by a Break; the loop and the Break
\* both continue at `after`, whose value the event outputs
EvBreak ==
    Event("ev_break", "ev_break", Named("l"),
        << Node("eb.l", "l", Loop(Named("pad")), Named("after"), <<>>),
           Node("eb.pad", "pad", GetValue(PNumber(0)), Named("brk"), <<>>),
           Node("eb.brk", "brk", Break, Named("after"), <<>>),
           Node("eb.after", "after", GetValue(PNumber(1)), Named("out"), <<>>),
           Node("eb.out", "out", SetOutput(0), RefNone, <<NodeIndexed("eb.after", 0)>>) >>,
        <<>>, 0, 1)

\* Scenario B: a counter starting at 0; the loop body increments it in place and
\* compares it with 3; the IfElse leads to the Break when they are equal and to
\* the end of the body otherwise; after the loop the counter is the output
EvCount ==
    Event("ev_count", "ev_count", Named("n"),
        << Node("ec.n", "n", GetValue(PNumber(0)), Named("l"), <<>>),
           Node("ec.l", "l", Loop(Named("inc")), Named("out"), <<>>),
           Node("ec.inc", "inc", CallOperation(Named("inc")), Named("cmp"),
                <<NodeIndexed("ec.n", 0)>>),
           Node("ec.cmp", "cmp", CallOperation(Named("eq3")), Named("br"),
                <<NodeIndexed("ec.n", 0)>>),
           Node("ec.br", "br", IfElse(Named("brk"), Named("tail")), Named("tail"),
                <<NodeIndexed("ec.cmp", 0)>>),
           Node("ec.brk", "brk", Break, Named("out"), <<>>),
           Node("ec.tail", "tail", GetValue(PNull), RefNone, <<>>),
           Node("ec.out", "out", SetOutput(0), RefNone, <<NodeIndexed("ec.n", 0)>>) >>,
        <<>>, 0, 1)

LoopOperations == <<Operation("op_inc", "inc", 1, 0), Operation("op_eq3", "eq3", 1, 1)>>

BreakProgram == MkProgram(<<EvBreak>>, <<>>, <<>>, <<>>, <<>>, LoopOperations)

CountProgram == MkProgram(<<EvCount>>, <<>>, <<>>, <<>>, <<>>, LoopOperations)

\* the implementations the host registers for these programs
LoopNativeNames == {"inc", "eq3"}

\* depth of the jump stack and value of a Number up to which the host goes on
\* stepping an event one node at a time
MaxJumps == 3
MaxCount == 4

\* the host still steps event guid
StepBounded(guid) ==
    guid \in DOMAIN running_events =>
        /\ \A i \in DOMAIN running_events[guid].contexts :
                Len(running_events[guid].contexts[i].jump_stack) <= MaxJumps
        /\ \A c \in DOMAIN heap : heap[c].kind = "Number" => heap[c].val <= MaxCount

\* the state after Vm::new returned Ok for one of the two programs
InitLoop ==
    /\ ast \in {BreakProgram, CountProgram}
    /\ new_result = NewStatus(ast)
    /\ new_result = "Ok"
    /\ \E vm \in NewVm(ast) : IsVm(vm) /\ heap = vm.heap
    /\ running_events = EmptyMap
    /\ completed_events = EmptyMap
    /\ next_guid = 0
    /\ panicked = FALSE
    /\ last = Last("idle", "", 0)
    /\ issued = EmptyMap

NextLoop ==
    \/ \E name \in LoopNativeNames : RegisterOperation(name)
    \/ \E name \in {"ev_break", "ev_count"} :
            next_guid < MaxRuns /\ RunEvent(name, <<>>)
    \/ \E order \in Perms(DOMAIN running_events) : ProcessEvents(order)
    \/ \E guid \in 1..MaxRuns : StepBounded(guid) /\ SingleStepEvent(guid)
    \/ HostReturn

SpecLoop == InitLoop /\ [][NextLoop]_vars

(***************************************************************************)
(* Properties of loops.                                                    *)
(***************************************************************************)
\* the node at the instruction pointer of ev is a Break and the top marker of
\* the jump stack of its context is a Loop marker
BreakUnderLoop(ev) ==
    /\ get_current_node(ev).some
    /\ get_current_node(ev).node.node_type.t = "Break"
    /\ Top(ev).jump_stack # <<>>
    /\ Top(ev).jump_stack[Len(Top(ev).jump_stack)].t = "Loop"

\* the guid of the node that follows, by next_node, the loop of the top marker
AfterLoop(ev) ==
    get_node(ev, get_node(ev, Guid(Top(ev).jump_stack[Len(Top(ev).jump_stack)].node))
                    .node.next_node).node.guid

\* C13: when a Break executes while the top marker of its context's jump stack
\* is Loop(L), the step succeeds, that marker is popped (the loop is left), and
\* the node the event executes next is the one L's next_node names.
C13_BreakResumesAfterLoop ==
    [][(/\ SingleStepActs
        /\ last'.handle \in DOMAIN running_events
        /\ BreakUnderLoop(running_events[last'.handle]))
       => /\ last'.result = "Ok"
          /\ last'.handle \in DOMAIN running_events'
          /\ HasContext(running_events'[last'.handle])
          /\ Top(running_events'[last'.handle]).jump_stack =
                SubSeq(Top(running_events[last'.handle]).jump_stack, 1,
                       Len(Top(running_events[last'.handle]).jump_stack) - 1)
          /\ get_current_node(running_events'[last'.handle]).some
          /\ get_current_node(running_events'[last'.handle]).node.guid =
                AfterLoop(running_events[last'.handle])]_vars

\* C14: Scenario B: with the natives "inc" and "eq3" registered, an event
\* started by run_event("ev_count", []) that process_events drives runs without
\* error and ends in the completed map; its output, the counter the loop body
\* increments once per execution, is then 3: the body ran exactly three times
\* and the event went on at the node after the loop.
C14_ScenarioBCompletesAfterThree ==
    (last.op = "process_events" /\ LoopNativeNames \subseteq operations) =>
        \A h \in DOMAIN last.outcomes :
            (IssuedAs(h, "ev_count", <<>>) /\ last.outcomes[h] # "Untouched") =>
                /\ last.result = "Ok"
                /\ last.outcomes[h] = "Stop"
                /\ h \in DOMAIN completed_events
                /\ Deref(completed_events[h]) = <<VNumber(3)>>

(***************************************************************************)
(* Operations: the Vm built from a program whose events call natives.      *)
(***************************************************************************)
\* calls an operation the program does not declare
EvUndeclared ==
    Event("ev_undeclared", "ev_undeclared", Named("op"),
        << Node("eu.op", "op", CallOperation(Named("nop")), RefNone, <<>>) >>,
        <<>>, 0, 0)

\* calls "pair", declared without inputs, with one input link
EvArity ==
    Event("ev_arity", "ev_arity", Named("a"),
        << Node("ey.a", "a", GetInput(0), Named("op"), <<>>),
           Node("ey.op", "op", CallOperation(Guid("op_pair")), Named("out"),
                <<NodeIndexed("ey.a", 0)>>),
           Node("ey.out", "out", SetOutput(0), RefNone, <<NodeIndexed("ey.op", 0)>>) >>,
        <<>>, 1, 1)

\* calls "pair", declared with one output, whose native returns two
EvPair ==
    Event("ev_pair", "ev_pair", Named("op"),
        << Node("ep.op", "op", CallOperation(Named("pair")), Named("out"), <<>>),
           Node("ep.out", "out", SetOutput(0), RefNone, <<NodeIndexed("ep.op", 0)>>) >>,
        <<>>, 0, 1)

OpsProgram ==
    MkProgram(<<EvOp, EvUndeclared, EvArity, EvPair>>, <<>>, <<>>, <<>>, <<>>,
              <<Operation("op_add", "add", 2, 1), Operation("op_pair", "pair", 0, 1)>>)

OpsNativeNames == {"add", "pair"}

\* the input vectors the host passes to run_event for these events
OpsInputs ==
    { <<>>, <<VNumber(2)>>, <<VNumber(2), VNumber(3)>>, <<VString("s"), VNumber(3)>> }

\* the state after Vm::new(OpsProgram) returned Ok
InitOps ==
    /\ ast = OpsProgram
    /\ new_result = NewStatus(ast)
    /\ new_result = "Ok"
    /\ \E vm \in NewVm(ast) : IsVm(vm) /\ heap = vm.heap
    /\ running_events = EmptyMap
    /\ completed_events = EmptyMap
    /\ next_guid = 0
    /\ panicked = FALSE
    /\ last = Last("idle", "", 0)
    /\ issued = EmptyMap

NextOps ==
    \/ \E name \in OpsNativeNames : RegisterOperation(name)
    \/ \E name \in OpsNativeNames : UnregisterOperator(name)
    \/ \E name \in {e.name : e \in Range(OpsProgram.events)}, inputs \in OpsInputs :
            next_guid < MaxRuns /\ RunEvent(name, inputs)
    \/ \E order \in Perms(DOMAIN running_events) : ProcessEvents(order)
    \/ \E guid \in 1..MaxRuns : SingleStepEvent(guid)
    \/ HostReturn

SpecOps == InitOps /\ [][NextOps]_vars

(***************************************************************************)
(* Properties of operation calls.                                          *)
(***************************************************************************)
\* the operation of the program that the call node names, 0 when there is none
DeclaredAs(node) == FindRef(ast.operations, node.node_type.a)

\* what the registered native returns for the call node of ev
NativeResult(ev, node) ==
    NativeExecute(ast.operations[DeclaredAs(node)].name,
                  CollectInputs(ev, node.input_links).refs, heap)

\* the error the call must end in, "" when it must succeed: the operation is not
\* declared, has no implementation registered, is called with a number of
\* input links other than its declared input count, fails, or returns a
\* number of outputs other than its declared output count
CallDefect(ev, node) ==
    IF DeclaredAs(node) = 0 THEN "OperationDoesNotExists"
    ELSE IF ast.operations[DeclaredAs(node)].name \notin operations
    THEN "OperationIsNotRegistered"
    ELSE IF CollectInputs(ev, node.input_links).err # ""
    THEN CollectInputs(ev, node.input_links).err
    ELSE IF Len(node.input_links) # ast.operations[DeclaredAs(node)].input_constrains
    THEN "WrongNumberOfInputs"
    ELSE IF ~NativeResult(ev, node).ok THEN "Message"
    ELSE IF Len(NativeResult(ev, node).outputs)
              # ast.operations[DeclaredAs(node)].output_constrains
    THEN "WrongNumberOfOutputs"
    ELSE ""

\* a step of event h that executes the CallOperation node `node`
CallStep(h, node) ==
    IF CallDefect(running_events[h], node) # ""
    THEN /\ last'.result = CallDefect(running_events[h], node)
         /\ h \in DOMAIN running_events' =>
                node.guid \notin DOMAIN Top(running_events'[h]).node_outputs
         /\ CallDefect(running_events[h], node)
                \in {"OperationDoesNotExists", "OperationIsNotRegistered", "WrongNumberOfInputs"}
              => heap' = heap
    ELSE /\ last'.result = "Ok"
         /\ h \in DOMAIN running_events'
         /\ Top(running_events'[h]).node_outputs[node.guid] =
                NativeResult(running_events[h], node).outputs
         /\ heap' = NativeResult(running_events[h], node).heap

\* C18: a CallOperation step returns an error and caches no outputs when the
\* operation is not declared, has no implementation registered, is given a
\* number of input links other than its declared input count (the native is
\* then not invoked), when the native fails, or when it returns a number of
\* outputs other than the declared output count; only otherwise are the
\* native's outputs cached under the call node.
C18_CallOperationCachesOnlyCheckedOutputs ==
    [][(/\ SingleStepActs
        /\ last'.handle \in DOMAIN running_events
        /\ get_current_node(running_events[last'.handle]).some
        /\ get_current_node(running_events[last'.handle]).node.node_type.t = "CallOperation")
       => CallStep(last'.handle, get_current_node(running_events[last'.handle]).node)]_vars

\* a call has just failed because the registered native returned two outputs
\* where one is declared
C18_Witness ==
    /\ last.op = "single_step_event"
    /\ last.result = "WrongNumberOfOutputs"
    /\ IssuedAs(last.handle, "ev_pair", <<>>)
    /\ "pair" \in operations

(***************************************************************************)
(* Control flow: the Vm built from a program whose events jump, call and   *)
(* write outputs.                                                          *)
(***************************************************************************)
\* two Breaks outside any loop, then a literal that the event outputs
EvStray ==
    Event("ev_stray", "ev_stray", Named("brk"),
        << Node("es.brk", "brk", Break, Named("brk2"), <<>>),
           Node("es.brk2", "brk2", Break, Named("x"), <<>>),
           Node("es.x", "x", GetValue(PNumber(1)), Named("out"), <<>>),
           Node("es.out", "out", SetOutput(0), RefNone, <<NodeIndexed("es.x", 0)>>) >>,
        <<>>, 0, 1)

\* a Continue outside any loop, then a literal that the event outputs
EvStrayContinue ==
    Event("ev_stray_continue", "ev_stray_continue", Named("cont"),
        << Node("ek.cont", "cont", Continue, Named("x"), <<>>),
           Node("ek.x", "x", GetValue(PNumber(1)), Named("out"), <<>>),
           Node("ek.out", "out", SetOutput(0), RefNone, <<NodeIndexed("ek.x", 0)>>) >>,
        <<>>, 0, 1)

\* a loop whose body is two literals followed by a Continue
EvRepeat ==
    Event("ev_repeat", "ev_repeat", Named("l"),
        << Node("er.l", "l", Loop(Named("b")), Named("b"), <<>>),
           Node("er.b", "b", GetValue(PNumber(0)), Named("c"), <<>>),
           Node("er.c", "c", GetValue(PNumber(1)), Named("cont"), <<>>),
           Node("er.cont", "cont", Continue, Named("d"), <<>>),
           Node("er.d", "d", GetValue(PNumber(2)), Named("out"), <<>>),
           Node("er.out", "out", SetOutput(0), RefNone, <<NodeIndexed("er.d", 0)>>) >>,
        <<>>, 0, 1)

\* an IfElse on the event's input: the true branch is `t`, the false branch `f`
EvBranch ==
    Event("ev_branch", "ev_branch", Named("v"),
        << Node("eg.v", "v", GetInput(0), Named("br"), <<>>),
           Node("eg.br", "br", IfElse(Named("t"), Named("f")), Named("t"),
                <<NodeIndexed("eg.v", 0)>>),
           Node("eg.t", "t", GetValue(PNumber(1)), Named("f"), <<>>),
           Node("eg.f", "f", Break, Named("g"), <<>>),
           Node("eg.g", "g", GetValue(PNumber(2)), Named("out"), <<>>),
           Node("eg.out", "out", SetOutput(0), RefNone, <<NodeIndexed("eg.g", 0)>>) >>,
        <<>>, 1, 1)

\* a loop whose body `t` is a terminal node; the loop is followed by the
\* terminal node `z`
EvLoopEnd ==
    Event("ev_loop_end", "ev_loop_end", Named("l"),
        << Node("el.l", "l", Loop(Named("t")), Named("z"), <<>>),
           Node("el.z", "z", GetValue(PNumber(1)), RefNone, <<>>),
           Node("el.t", "t", GetValue(PNumber(0)), RefNone, <<>>) >>,
        <<>>, 0, 0)

\* an IfElse whose two branches are the terminal node `p`; the IfElse is followed
\* by the terminal node `n`
EvIfEnd ==
    Event("ev_if_end", "ev_if_end", Named("v"),
        << Node("ef.v", "v", GetValue(PBool(TRUE)), Named("i"), <<>>),
           Node("ef.i", "i", IfElse(Named("p"), Named("p")), Named("n"),
                <<NodeIndexed("ef.v", 0)>>),
           Node("ef.n", "n", GetValue(PNumber(1)), RefNone, <<>>),
           Node("ef.p", "p", GetValue(PNumber(0)), RefNone, <<>>) >>,
        <<>>, 0, 0)

\* function f: a literal, then a call of g as its last node
FnF ==
    Function("fn_f", "f",
        << Node("ff.p", "p", GetValue(PNumber(0)), Named("c2"), <<>>),
           Node("ff.c2", "c2", CallFunction(Named("g")), RefNone, <<>>) >>,
        <<>>, 0, 1)

\* function g: a single literal
FnG ==
    Function("fn_g", "g",
        << Node("fg.q", "q", GetValue(PNumber(0)), RefNone, <<>>) >>,
        <<>>, 0, 1)

\* function h: a literal, then a literal that it writes to its output
FnH ==
    Function("fn_h", "h",
        << Node("fh.p", "p", GetValue(PNumber(0)), Named("v"), <<>>),
           Node("fh.v", "v", GetValue(PNumber(9)), Named("s"), <<>>),
           Node("fh.s", "s", SetOutput(0), RefNone, <<NodeIndexed("fh.v", 0)>>) >>,
        <<>>, 0, 1)

\* calls f, which calls g, and outputs what f returned
EvNest ==
    Event("ev_nest", "ev_nest", Named("c1"),
        << Node("en.c1", "c1", CallFunction(Named("f")), Named("o"), <<>>),
           Node("en.o", "o", SetOutput(0), RefNone, <<NodeIndexed("en.c1", 0)>>) >>,
        <<>>, 0, 1)

\* calls method m of type T1, which takes the trait's default body
EvMethodDefault ==
    Event("ev_method_default", "ev_method_default", Named("v"),
        << Node("ed.v", "v", GetValue(PNumber(7)), Guid("ed.call"), <<>>),
           Node("ed.call", "call", CallMethod(Named("T1"), Named("m")), Guid("ed.out"),
                <<NodeIndexed("ed.v", 0)>>),
           Node("ed.out", "out", SetOutput(0), RefNone, <<NodeIndexed("ed.call", 0)>>) >>,
        <<>>, 0, 1)

\* writes slot 0, slot 1, and slot 0 again
EvOut ==
    Event("ev_out", "ev_out", Named("a"),
        << Node("eo2.a", "a", GetValue(PNumber(1)), Named("b"), <<>>),
           Node("eo2.b", "b", GetValue(PNumber(2)), Named("s0"), <<>>),
           Node("eo2.s0", "s0", SetOutput(0), Named("s1"), <<NodeIndexed("eo2.a", 0)>>),
           Node("eo2.s1", "s1", SetOutput(1), Named("s0b"), <<NodeIndexed("eo2.b", 0)>>),
           Node("eo2.s0b", "s0b", SetOutput(0), RefNone, <<NodeIndexed("eo2.b", 0)>>) >>,
        <<>>, 0, 2)

\* writes slot 2 of two declared outputs
EvOutRange ==
    Event("ev_out_range", "ev_out_range", Named("a"),
        << Node("ex.a", "a", GetInput(0), Named("s"), <<>>),
           Node("ex.s", "s", SetOutput(2), RefNone, <<NodeIndexed("ex.a", 0)>>) >>,
        <<>>, 1, 2)

\* writes slot 0, calls h, whose own SetOutput(0) runs in the nested context, and
\* writes what h returned to slot 1
EvOutCall ==
    Event("ev_out_call", "ev_out_call", Named("a"),
        << Node("ec2.a", "a", GetInput(0), Named("s0"), <<>>),
           Node("ec2.s0", "s0", SetOutput(0), Named("c"), <<NodeIndexed("ec2.a", 0)>>),
           Node("ec2.c", "c", CallFunction(Named("h")), Named("s1"), <<>>),
           Node("ec2.s1", "s1", SetOutput(1), RefNone, <<NodeIndexed("ec2.c", 0)>>) >>,
        <<>>, 1, 2)

\* overwrites the literal 1 with the literal 2 and outputs the destination
EvMutate ==
    Event("ev_mutate", "ev_mutate", Named("d"),
        << Node("eu2.d", "d", GetValue(PNumber(1)), Named("s"), <<>>),
           Node("eu2.s", "s", GetValue(PNumber(2)), Named("m"), <<>>),
           Node("eu2.m", "m", MutateValue, Named("out"),
                <<NodeIndexed("eu2.d", 0), NodeIndexed("eu2.s", 0)>>),
           Node("eu2.out", "out", SetOutput(0), RefNone, <<NodeIndexed("eu2.d", 0)>>) >>,
        <<>>, 0, 1)

FlowProgram ==
    MkProgram(<<EvStray, EvStrayContinue, EvRepeat, EvBranch, EvLoopEnd, EvIfEnd, EvNest,
                EvMethod, EvMethodDefault, EvOut, EvOutRange, EvOutCall, EvMutate>>,
              <<FnF, FnG, FnH>>,
              <<TypeT1, TypeT2>>,
              <<TraitTr>>,
              <<>>,
              <<>>)

\* the input vectors the host passes to run_event for these events
FlowInputs == { <<>>, <<VBool(TRUE)>>, <<VBool(FALSE)>>, <<VNumber(2)>> }

\* the state after Vm::new(FlowProgram) returned Ok
InitFlow ==
    /\ ast = FlowProgram
    /\ new_result = NewStatus(ast)
    /\ new_result = "Ok"
    /\ \E vm \in NewVm(ast) : IsVm(vm) /\ heap = vm.heap
    /\ running_events = EmptyMap
    /\ completed_events = EmptyMap
    /\ next_guid = 0
    /\ panicked = FALSE
    /\ last = Last("idle", "", 0)
    /\ issued = EmptyMap

\* the host still steps event guid: no jump stack of it is deeper than MaxJumps
JumpsBounded(guid) ==
    guid \in DOMAIN running_events =>
        \A i \in DOMAIN running_events[guid].contexts :
            Len(running_events[guid].contexts[i].jump_stack) <= MaxJumps

NextFlow ==
    \/ \E name \in {e.name : e \in Range(FlowProgram.events)}, inputs \in FlowInputs :
            next_guid < MaxRuns /\ RunEvent(name, inputs)
    \/ \E order \in Perms(DOMAIN running_events) : ProcessEvents(order)
    \/ \E guid \in 1..MaxRuns : JumpsBounded(guid) /\ SingleStepEvent(guid)
    \/ \E guid \in 1..MaxRuns : DestroyEvent(guid)
    \/ GetCompletedEvents
    \/ HostReturn

SpecFlow == InitFlow /\ [][NextFlow]_vars

(***************************************************************************)
(* Properties of control flow.                                             *)
(***************************************************************************)
\* a single_step_event call on a running handle whose event has a node at its
\* instruction pointer acts in this step
NodeStepActs ==
    /\ SingleStepActs
    /\ last'.handle \in DOMAIN running_events
    /\ get_current_node(running_events[last'.handle]).some

\* the event the step is applied to, the node it executes, and the event after it
Stepped == running_events[last'.handle]
SteppedNode == get_current_node(running_events[last'.handle]).node
SteppedAfter == running_events'[last'.handle]

\* the top marker of the jump stack of the top context of ev; the sentinel's
\* kind "None" also stands for an empty stack
TopJump(ev) ==
    IF Top(ev).jump_stack = <<>> THEN JumpNone
    ELSE Top(ev).jump_stack[Len(Top(ev).jump_stack)]

\* the step returned a VmError
TypedError == last'.result \notin {"Ok", "panic"}

\* C21: a Break or Continue node executed when the top of its context's jump
\* stack is not a Loop marker (the sentinel, an IfElse marker, or nothing at
\* all) makes the step return a typed error; the step never succeeds.
C21_StrayBreakIsATypedError ==
    [][(/\ NodeStepActs
        /\ SteppedNode.node_type.t \in {"Break", "Continue"}
        /\ TopJump(Stepped).t # "Loop")
       => TypedError]_vars

\* the guid of the node the event executes next, "" when it has none
NextExecuted(ev) ==
    IF get_current_node(ev).some THEN get_current_node(ev).node.guid ELSE ""

\* the guid of the node of the top context's construct that a reference names
NodeNamed(ev, reference) == get_node(ev, reference).node.guid

\* C22: after a successful CallFunction or CallMethod step the new context is
\* the top of the event's context stack, the caller's instruction pointer still
\* designates the call node, and the node the event executes next is the one at
\* index 0 of the callee's compiled order: no node of the callee is skipped.
C22_CalleeStartsAtItsFirstNode ==
    [][(/\ NodeStepActs
        /\ SteppedNode.node_type.t \in {"CallFunction", "CallMethod"}
        /\ last'.result = "Ok")
       => /\ last'.handle \in DOMAIN running_events'
          /\ Len(SteppedAfter.contexts) = Len(Stepped.contexts) + 1
          /\ SteppedAfter.contexts[Len(Stepped.contexts)].current = Top(Stepped).current
          /\ Top(SteppedAfter).caller_node = SteppedNode.guid
          /\ Top(SteppedAfter).current = 0
          /\ NextExecuted(SteppedAfter) = Top(SteppedAfter).execution[1]]_vars

\* the jump stack of the top context of ev without its top marker
JumpsBelowTop(ev) == SubSeq(Top(ev).jump_stack, 1, Len(Top(ev).jump_stack) - 1)

\* C23: after a Loop node executes, the top of its context's jump stack is
\* Loop(that node) and the node the event executes next is the entry node of
\* the loop's body.
C23_LoopEntersItsBody ==
    [][(/\ NodeStepActs
        /\ SteppedNode.node_type.t = "Loop")
       => /\ last'.result = "Ok"
          /\ last'.handle \in DOMAIN running_events'
          /\ HasContext(SteppedAfter)
          /\ TopJump(SteppedAfter) = JumpLoop(SteppedNode.guid)
          /\ NextExecuted(SteppedAfter) = NodeNamed(Stepped, SteppedNode.node_type.a)]_vars

\* C24: an IfElse node whose input is Bool(b) pushes IfElse(that node) on the
\* jump stack, and the node the event executes next is next_node_true when b is
\* true and next_node_false when b is false; when the input is not a Bool the
\* step fails with ValueIsNotABool, pushes no marker and moves no pointer.
C24_IfElseTakesTheChosenBranch ==
    [][(/\ NodeStepActs
        /\ SteppedNode.node_type.t = "IfElse"
        /\ FirstInput(Stepped, SteppedNode).err = "")
       => IF heap[FirstInput(Stepped, SteppedNode).ref].kind = "Bool"
          THEN /\ last'.result = "Ok"
               /\ last'.handle \in DOMAIN running_events'
               /\ HasContext(SteppedAfter)
               /\ TopJump(SteppedAfter) = JumpIfElse(SteppedNode.guid)
               /\ NextExecuted(SteppedAfter) =
                     NodeNamed(Stepped,
                               IF heap[FirstInput(Stepped, SteppedNode).ref].val
                               THEN SteppedNode.node_type.a
                               ELSE SteppedNode.node_type.b)
          ELSE /\ last'.result = "ValueIsNotABool"
               /\ last'.handle \in DOMAIN running_events' => SteppedAfter = Stepped]_vars

\* C25: when a Continue node executes while the top marker of its context's
\* jump stack is Loop(L), the marker is popped and the node the event executes
\* next is the entry node of the body of loop L.
C25_ContinueReentersTheBody ==
    [][(/\ NodeStepActs
        /\ SteppedNode.node_type.t = "Continue"
        /\ TopJump(Stepped).t = "Loop")
       => /\ last'.result = "Ok"
          /\ last'.handle \in DOMAIN running_events'
          /\ HasContext(SteppedAfter)
          /\ Top(SteppedAfter).jump_stack = JumpsBelowTop(Stepped)
          /\ NextExecuted(SteppedAfter) =
                NodeNamed(Stepped,
                          get_node(Stepped, Guid(TopJump(Stepped).node)).node.node_type.a)]_vars

\* the node at the instruction pointer is a terminal node of its construct whose
\* own arm touches neither the jump stack nor the context stack, and succeeds
TerminalNodeActs ==
    /\ NodeStepActs
    /\ SteppedNode.guid \in end_nodes
    /\ SteppedNode.node_type.t \notin
            {"Halt", "Loop", "IfElse", "Break", "Continue", "CallFunction", "CallMethod"}
    /\ Effect(Stepped, heap, SteppedNode).status = "ok"

\* C26: when a terminal node (no outgoing next_node or data edge in its
\* construct) has executed, exactly one marker is popped from its context's jump
\* stack: if it is Loop(L) the node executed next is the loop node L itself, if
\* it is IfElse(I) the node executed next is the one I's next_node names.
C26_TerminalNodeReturnsToItsMarker ==
    [][(/\ TerminalNodeActs
        /\ TopJump(Stepped).t \in {"Loop", "IfElse"})
       => /\ last'.result = "Ok"
          /\ last'.handle \in DOMAIN running_events'
          /\ HasContext(SteppedAfter)
          /\ Top(SteppedAfter).jump_stack = JumpsBelowTop(Stepped)
          /\ NextExecuted(SteppedAfter) =
                IF TopJump(Stepped).t = "Loop" THEN TopJump(Stepped).node
                ELSE NodeNamed(Stepped,
                               get_node(Stepped, Guid(TopJump(Stepped).node)).node.next_node)]_vars

\* the Reference cached behind input link i (from 1) of the node being stepped
LinkedRef(i) == get_node_output(Stepped, SteppedNode.input_links[i]).ref

\* C27: a MutateValue step with destination Reference d (first input) and source
\* Reference s (second input), d not borrowed, returns Ok; afterwards the Value
\* behind d equals the Value s held before the step, every alias of d observes
\* it, s itself is unchanged and d and s remain distinct References; the step
\* never aborts.
C27_MutateValueCopiesSourceIntoDestination ==
    [][(/\ NodeStepActs
        /\ SteppedNode.node_type.t = "MutateValue"
        /\ Len(SteppedNode.input_links) = 2
        /\ get_node_output(Stepped, SteppedNode.input_links[1]).err = ""
        /\ get_node_output(Stepped, SteppedNode.input_links[2]).err = ""
        /\ LinkedRef(1) # LinkedRef(2))
       => /\ last'.result = "Ok"
          /\ ~panicked'
          /\ heap' = [heap EXCEPT ![LinkedRef(1)] = heap[LinkedRef(2)]]
          /\ last'.handle \in DOMAIN running_events'
          /\ SteppedAfter.contexts[Len(Stepped.contexts)].node_outputs = Top(Stepped).node_outputs]_vars

\* the output slots of the top context of ev once `node` has acted: SetOutput(i)
\* with i in range replaces slot i by the Reference behind its input link, every
\* other node leaves the slots alone
OutputsAfterNode(ev, node) ==
    IF node.node_type.t = "SetOutput" /\ node.node_type.i + 1 \in DOMAIN Top(ev).outputs
    THEN [Top(ev).outputs EXCEPT ![node.node_type.i + 1] =
                get_node_output(ev, node.input_links[1]).ref]
    ELSE Top(ev).outputs

\* the output slots context j of the stepped event ends the step with
OutputsAtPop(j) ==
    IF j = Len(Stepped.contexts) THEN OutputsAfterNode(Stepped, SteppedNode)
    ELSE Stepped.contexts[j].outputs

\* a successful step ends with fewer contexts than it began with: the top
\* context (after a call: the callee it pushed, then the calling context), and
\* maybe callers below it, ran past their end
ContextsPopped ==
    /\ NodeStepActs
    /\ last'.result = "Ok"
    /\ last'.handle \in DOMAIN running_events'
    /\ Len(SteppedAfter.contexts) < Len(Stepped.contexts)

\* C28: when a nested context runs past the end of its compiled order it is
\* popped, its output slots become the cached outputs of the calling node in
\* the caller's context, and the caller resumes at the node after the call
\* node; when the caller is thereby exhausted too the popping repeats, and each
\* popped context's outputs go to its own caller's cache and to no other (or to
\* the event's final outputs for the root).
C28_ExhaustedContextsReturnToTheirCallers ==
    [][ContextsPopped =>
          /\ \A j \in 1..(Len(SteppedAfter.contexts) - 1) :
                SteppedAfter.contexts[j] = Stepped.contexts[j]
          /\ Len(SteppedAfter.contexts) >= 1 =>
                SteppedAfter.contexts[Len(SteppedAfter.contexts)] =
                    [Stepped.contexts[Len(SteppedAfter.contexts)] EXCEPT
                        !.current = @ + 1,
                        !.node_outputs =
                            MapInsert(@, Stepped.contexts[Len(SteppedAfter.contexts) + 1].caller_node,
                                      OutputsAtPop(Len(SteppedAfter.contexts) + 1))]
          /\ Len(SteppedAfter.contexts) = 0 => SteppedAfter.outputs = OutputsAtPop(1)]_vars

\* the output slots of the root context of the stepped event after the step:
\* those of the context while it is on the stack, the event's final outputs
\* once it was popped
RootSlotsAfter ==
    IF HasContext(SteppedAfter) THEN SteppedAfter.contexts[1].outputs
    ELSE SteppedAfter.outputs

\* a SetOutput node whose input link is cached is at the instruction pointer
SetOutputActs ==
    /\ NodeStepActs
    /\ SteppedNode.node_type.t = "SetOutput"
    /\ Len(SteppedNode.input_links) >= 1
    /\ get_node_output(Stepped, SteppedNode.input_links[1]).err = ""

\* process_events acts in this step
ProcessEventsActs == Idle /\ last'.op = "process_events"

\* the Values behind the outputs process_events recorded for handle h
Recorded(h) == [i \in DOMAIN completed_events'[h] |-> heap'[completed_events'[h][i]]]

\* C29: the output slots of an event's root context change only by a
\* SetOutput(i) executed in the root context, which replaces slot i by the
\* Reference behind its input and no other slot; SetOutput(i) with i outside
\* the declared output count fails with OutputDoesNotExists; when the root
\* context is exhausted its slots become the event's final outputs, and those
\* are what process_events records for the handle in the completed map.
C29_CompletedOutputsAreTheRootSlots ==
    [][/\ (NodeStepActs /\ last'.result = "Ok") =>
                /\ last'.handle \in DOMAIN running_events'
                /\ RootSlotsAfter = OutputsAtPop(1)
                /\ HasContext(SteppedAfter) => SteppedAfter.outputs = Stepped.outputs
       /\ (SetOutputActs /\ SteppedNode.node_type.i + 1 \notin DOMAIN Top(Stepped).outputs) =>
                last'.result = "OutputDoesNotExists"
       /\ ProcessEventsActs =>
            \A h \in DOMAIN last'.outcomes :
                /\ (last'.outcomes[h] = "Stop" /\ last'.returned[h].contexts = <<>>) =>
                        /\ h \in DOMAIN completed_events'
                        /\ completed_events'[h] = last'.returned[h].outputs
                /\ (last'.outcomes[h] # "Untouched" /\ running_events[h].contexts = <<>>) =>
                        /\ last'.outcomes[h] = "Stop"
                        /\ completed_events'[h] = running_events[h].outputs
                /\ (last'.outcomes[h] # "Untouched" /\ IssuedAs(h, "ev_out", <<>>)) =>
                        /\ last'.outcomes[h] = "Stop"
                        /\ completed_events'[h][1] = completed_events'[h][2]
                        /\ Recorded(h) = <<VNumber(2), VNumber(2)>>
                /\ (last'.outcomes[h] # "Untouched"
                    /\ IssuedAs(h, "ev_out_call", <<VNumber(2)>>)) =>
                        /\ last'.outcomes[h] = "Stop"
                        /\ Recorded(h) = <<VNumber(2), VNumber(9)>>]_vars

\* process_events has completed an event started as ev_out_call: its root
\* context was exhausted, and the two slots recorded for it hold distinct
\* References, the event's input and what h returned
C29_Witness ==
    /\ last.op = "process_events"
    /\ \E h \in DOMAIN last.outcomes :
        /\ IssuedAs(h, "ev_out_call", <<VNumber(2)>>)
        /\ last.outcomes[h] = "Stop"
        /\ h \in DOMAIN completed_events
        /\ Deref(completed_events[h]) = <<VNumber(2), VNumber(9)>>
        /\ completed_events[h][1] # completed_events[h][2]

\* the method the CallMethod node being stepped resolves to: the type's own
\* method of that name when it supplies one, otherwise the trait's
DispatchedMethod ==
    ResolveMethod(ast.types[FindRef(ast.types, SteppedNode.node_type.a)],
                  SteppedNode.node_type.b)[1]

\* a CallMethod node is at the instruction pointer and its step succeeds
CallMethodActs ==
    /\ NodeStepActs
    /\ SteppedNode.node_type.t = "CallMethod"
    /\ last'.result = "Ok"

\* C30: a CallMethod step on type T and method m pushes a context whose bound
\* instance is the Reference of the call's first input and whose compiled order
\* lists the nodes of T's own method when T overrides m and those of the
\* trait's default body otherwise; every node of that order is found, in the
\* same method, when the new context looks up its node definitions.
C30_MethodContextWalksAndLooksUpTheSameMethod ==
    [][CallMethodActs =>
          /\ last'.handle \in DOMAIN running_events'
          /\ Len(SteppedAfter.contexts) = Len(Stepped.contexts) + 1
          /\ Top(SteppedAfter).instance = LinkedRef(1)
          /\ Range(Top(SteppedAfter).execution) =
                {n.guid : n \in Range(DispatchedMethod.nodes)}
          /\ \A g \in Range(Top(SteppedAfter).execution) :
                /\ get_node(SteppedAfter, Guid(g)).err = ""
                /\ get_node(SteppedAfter, Guid(g)).node \in Range(DispatchedMethod.nodes)]_vars

(***************************************************************************)
(* Suspension, fresh contexts and the life of a handle: the Vm built from  *)
(* a program whose events halt, call and declare local variables.          *)
(***************************************************************************)
\* a literal, a Halt, then the literal is written to the output
EvHaltMid ==
    Event("ev_halt_mid", "ev_halt_mid", Named("a"),
        << Node("hm.a", "a", GetValue(PNumber(1)), Named("h"), <<>>),
           Node("hm.h", "h", Halt, Named("s"), <<>>),
           Node("hm.s", "s", SetOutput(0), RefNone, <<NodeIndexed("hm.a", 0)>>) >>,
        <<>>, 0, 1)

\* the Halt is the last node of the root context
EvHaltLast ==
    Event("ev_halt_last", "ev_halt_last", Named("a"),
        << Node("hl.a", "a", GetValue(PNumber(1)), Named("s"), <<>>),
           Node("hl.s", "s", SetOutput(0), Named("h"), <<NodeIndexed("hl.a", 0)>>),
           Node("hl.h", "h", Halt, RefNone, <<>>) >>,
        <<>>, 0, 1)

\* two Halt nodes in a row
EvHaltTwice ==
    Event("ev_halt_twice", "ev_halt_twice", Named("h1"),
        << Node("ht.h1", "h1", Halt, Named("h2"), <<>>),
           Node("ht.h2", "h2", Halt, Named("a"), <<>>),
           Node("ht.a", "a", GetValue(PNumber(1)), Named("s"), <<>>),
           Node("ht.s", "s", SetOutput(0), RefNone, <<NodeIndexed("ht.a", 0)>>) >>,
        <<>>, 0, 1)

\* function k halts between two of its nodes
FnK ==
    Function("fn_k", "k",
        << Node("fk.p", "p", GetValue(PNumber(0)), Named("q"), <<>>),
           Node("fk.q", "q", GetValue(PNumber(2)), Named("h"), <<>>),
           Node("fk.h", "h", Halt, Named("s"), <<>>),
           Node("fk.s", "s", SetOutput(0), RefNone, <<NodeIndexed("fk.q", 0)>>) >>,
        <<>>, 0, 1)

\* calls k and outputs what it returned
EvHaltCall ==
    Event("ev_halt_call", "ev_halt_call", Named("c"),
        << Node("hc.c", "c", CallFunction(Named("k")), Named("o"), <<>>),
           Node("hc.o", "o", SetOutput(0), RefNone, <<NodeIndexed("hc.c", 0)>>) >>,
        <<>>, 0, 1)

\* function w declares the local variable x, reads it and returns it
FnW ==
    Function("fn_w", "w",
        << Node("fw.p", "p", GetValue(PNumber(0)), Named("g"), <<>>),
           Node("fw.g", "g", GetLocalVariable(Named("x")), Named("s"), <<>>),
           Node("fw.s", "s", SetOutput(0), RefNone, <<NodeIndexed("fw.g", 0)>>) >>,
        <<Variable("fw.x", "x")>>, 0, 1)

\* declares the local variable y; its call of w is a terminal node
EvTail ==
    Event("ev_tail", "ev_tail", Named("a"),
        << Node("tl.a", "a", GetValue(PNumber(1)), Named("c"), <<>>),
           Node("tl.c", "c", CallFunction(Named("w")), RefNone, <<>>) >>,
        <<Variable("tl.y", "y")>>, 0, 1)

\* calls w twice and outputs what the second call returned
EvCallTwice ==
    Event("ev_call_twice", "ev_call_twice", Named("c1"),
        << Node("ct.c1", "c1", CallFunction(Named("w")), Named("c2"), <<>>),
           Node("ct.c2", "c2", CallFunction(Named("w")), Named("o"), <<>>),
           Node("ct.o", "o", SetOutput(0), RefNone, <<NodeIndexed("ct.c2", 0)>>) >>,
        <<Variable("ct.y", "y")>>, 0, 1)

\* trait Ts declares n, whose default body reads its local variable x
TraitTs ==
    Trait("ts", "Ts",
        << Function("ts.n", "n",
              << Node("sn.i", "i", GetInstance, Named("g"), <<>>),
                 Node("sn.g", "g", GetLocalVariable(Named("x")), Named("s"), <<>>),
                 Node("sn.s", "s", SetOutput(0), RefNone, <<NodeIndexed("sn.g", 0)>>) >>,
              <<Variable("sn.x", "x")>>, 1, 1) >>)

\* trait Tu declares n with the same default body
TraitTu ==
    Trait("tu", "Tu",
        << Function("tu.n", "n",
              << Node("un.i", "i", GetInstance, Named("g"), <<>>),
                 Node("un.g", "g", GetLocalVariable(Named("x")), Named("s"), <<>>),
                 Node("un.s", "s", SetOutput(0), RefNone, <<NodeIndexed("un.g", 0)>>) >>,
              <<Variable("un.x", "x")>>, 1, 1) >>)

\* T3 takes the default n of Ts
TypeT3 == Type("t3", "T3", << <<Named("Ts"), <<>> >> >>)

\* T4 overrides n of Tu with a method of its own that reads its local variable
\* x; the override carries the id of the trait method it overrides, which is
\* what lets the Vm look its nodes up
TypeT4 ==
    Type("t4", "T4",
        << <<Named("Tu"),
             << Function("tu.n", "n",
                   << Node("t4n.i", "i", GetInstance, Named("g"), <<>>),
                      Node("t4n.g", "g", GetLocalVariable(Named("x")), Named("s"), <<>>),
                      Node("t4n.s", "s", SetOutput(0), RefNone, <<NodeIndexed("t4n.g", 0)>>) >>,
                   <<Variable("t4n.x", "x")>>, 1, 1) >> >> >>)

\* reads its local variable y and outputs it
EvLocal ==
    Event("ev_local", "ev_local", Named("g"),
        << Node("lo.g", "g", GetLocalVariable(Named("y")), Named("s"), <<>>),
           Node("lo.s", "s", SetOutput(0), RefNone, <<NodeIndexed("lo.g", 0)>>) >>,
        <<Variable("lo.y", "y")>>, 0, 1)

\* reads x, which it does not declare
EvLocalMissing ==
    Event("ev_local_missing", "ev_local_missing", Named("g"),
        << Node("lm.g", "g", GetLocalVariable(Named("x")), Named("s"), <<>>),
           Node("lm.s", "s", SetOutput(0), RefNone, <<NodeIndexed("lm.g", 0)>>) >>,
        <<Variable("lm.y", "y")>>, 0, 1)

\* calls n of T3: the trait's default body
EvLocalDefault ==
    Event("ev_local_default", "ev_local_default", Named("v"),
        << Node("ld.v", "v", GetValue(PNumber(1)), Named("c"), <<>>),
           Node("ld.c", "c", CallMethod(Named("T3"), Named("n")), Named("o"),
                <<NodeIndexed("ld.v", 0)>>),
           Node("ld.o", "o", SetOutput(0), RefNone, <<NodeIndexed("ld.c", 0)>>) >>,
        <<>>, 0, 1)

\* calls n of T4: the type's own method
EvLocalOverride ==
    Event("ev_local_override", "ev_local_override", Named("v"),
        << Node("lv.v", "v", GetValue(PNumber(1)), Named("c"), <<>>),
           Node("lv.c", "c", CallMethod(Named("T4"), Named("n")), Named("o"),
                <<NodeIndexed("lv.v", 0)>>),
           Node("lv.o", "o", SetOutput(0), RefNone, <<NodeIndexed("lv.c", 0)>>) >>,
        <<>>, 0, 1)

\* two SetOutput nodes without next_node: both are terminal nodes
EvTwoEnds ==
    Event("ev_two_ends", "ev_two_ends", Named("a"),
        << Node("te.a", "a", GetValue(PNumber(1)), RefNone, <<>>),
           Node("te.s0", "s0", SetOutput(0), RefNone, <<NodeIndexed("te.a", 0)>>),
           Node("te.s1", "s1", SetOutput(1), RefNone, <<NodeIndexed("te.a", 0)>>) >>,
        <<>>, 0, 2)

\* an IfElse whose true branch names a node that precedes it in the compiled
\* order; the branch targets of an IfElse are no edges of the node graph
EvIfBack ==
    Event("ev_if_back", "ev_if_back", Named("v"),
        << Node("ib.v", "v", GetInput(0), Named("x"), <<>>),
           Node("ib.x", "x", GetValue(PNumber(0)), Named("i"), <<>>),
           Node("ib.i", "i", IfElse(Named("v"), Named("z")), Named("z"),
                <<NodeIndexed("ib.v", 0)>>),
           Node("ib.z", "z", SetOutput(0), RefNone, <<NodeIndexed("ib.x", 0)>>) >>,
        <<>>, 1, 1)

LifeProgram ==
    MkProgram(<<EvHalt, EvHaltMid, EvHaltLast, EvHaltTwice, EvHaltCall, EvTail,
                EvCallTwice, EvMethodDefault, EvLocal, EvLocalMissing, EvLocalDefault,
                EvLocalOverride, EvTwoEnds, EvIfBack>>,
              <<FnK, FnW>>,
              <<TypeT1, TypeT2, TypeT3, TypeT4>>,
              <<TraitTr, TraitTs, TraitTu>>,
              <<>>,
              <<>>)

\* the input vectors the host passes to run_event for these events
LifeInputs == { <<>>, <<VBool(TRUE)>>, <<VBool(FALSE)>> }

\* the state after Vm::new(LifeProgram) returned Ok
InitLife ==
    /\ ast = LifeProgram
    /\ new_result = NewStatus(ast)
    /\ new_result = "Ok"
    /\ \E vm \in NewVm(ast) : IsVm(vm) /\ heap = vm.heap
    /\ running_events = EmptyMap
    /\ completed_events = EmptyMap
    /\ next_guid = 0
    /\ panicked = FALSE
    /\ last = Last("idle", "", 0)
    /\ issued = EmptyMap

NextLife ==
    \/ \E name \in {e.name : e \in Range(LifeProgram.events)}, inputs \in LifeInputs :
            next_guid < MaxRuns /\ RunEvent(name, inputs)
    \/ \E order \in Perms(DOMAIN running_events) : ProcessEvents(order)
    \/ \E guid \in 1..(MaxRuns + 1) : JumpsBounded(guid) /\ SingleStepEvent(guid)
    \/ \E guid \in 1..(MaxRuns + 1) : DestroyEvent(guid)
    \/ GetCompletedEvents
    \/ HostReturn

SpecLife == InitLife /\ [][NextLife]_vars

(***************************************************************************)
(* Properties of suspension, fresh contexts and the life of a handle.      *)
(***************************************************************************)
\* the node the top context of ev executed last: the one before its pointer
PreviousNode(ev) == get_node(ev, Guid(Top(ev).execution[Top(ev).current])).node

\* the last node of the compiled order of the event handle h was started as
LastRootNode(h) ==
    LET e == EventNamed(issued[h].name)
        order == event_execution_order[e.guid]
    IN  e.nodes[FindGuid(e.nodes, order[Len(order)])]

\* the top context of ev is at a Halt node
AtHalt(ev) == get_current_node(ev).some /\ get_current_node(ev).node.node_type.t = "Halt"

\* ev with the pointer of its top context moved to the next node of its order
PointerAdvanced(ev) == [ev EXCEPT !.contexts[Len(ev.contexts)].current = @ + 1]

\* C31: when process_events reaches a Halt node in an event it stops driving
\* that event for this call: the event stays in the running set and is not in
\* the completed map, also when the Halt is the last node of the root context;
\* the Halt moves the pointer to the node following it and changes nothing
\* else, so the next call resumes there and each Halt suspends exactly once.
C31_HaltSuspendsOnceAndResumesAfterIt ==
    [][ProcessEventsActs =>
        \A h \in DOMAIN last'.outcomes :
            /\ last'.outcomes[h] = "Halt" =>
                    /\ h \in DOMAIN running_events'
                    /\ h \notin DOMAIN completed_events'
                    /\ IF HasContext(running_events'[h])
                       THEN /\ Top(running_events'[h]).current >= 1
                            /\ PreviousNode(running_events'[h]).node_type.t = "Halt"
                       ELSE LastRootNode(h).node_type.t = "Halt"
            /\ (last'.outcomes[h] # "Untouched" /\ AtHalt(running_events[h])) =>
                    /\ last'.outcomes[h] = "Halt"
                    /\ h \in DOMAIN running_events'
                    /\ IF Top(running_events[h]).current + 1 < Len(Top(running_events[h]).execution)
                       THEN running_events'[h] = PointerAdvanced(running_events[h])
                       ELSE Len(running_events[h].contexts) = 1 =>
                                /\ running_events'[h].contexts = <<>>
                                /\ running_events'[h].outputs = Top(running_events[h]).outputs
            /\ (last'.outcomes[h] # "Untouched" /\ IssuedAs(h, "ev_halt_twice", <<>>)
                /\ HasContext(running_events[h])) =>
                    CASE Top(running_events[h]).current = 0 ->
                            /\ last'.outcomes[h] = "Halt"
                            /\ Top(running_events'[h]).current = 1
                      [] Top(running_events[h]).current = 1 ->
                            /\ last'.outcomes[h] = "Halt"
                            /\ Top(running_events'[h]).current = 2
                      [] OTHER ->
                            /\ last'.outcomes[h] = "Stop"
                            /\ Recorded(h) = <<VNumber(1)>>
            /\ (last'.outcomes[h] # "Untouched" /\ IssuedAs(h, "ev_halt_last", <<>>)
                /\ ~HasContext(running_events[h])) =>
                    /\ last'.outcomes[h] = "Stop"
                    /\ Recorded(h) = <<VNumber(1)>>]_vars

\* process_events has returned from an event whose last root node is the Halt
\* it reached: the event is still running, with no context left, and is not in
\* the completed map
C31_Witness ==
    /\ last.op = "process_events"
    /\ \E h \in DOMAIN last.outcomes :
        /\ IssuedAs(h, "ev_halt_last", <<>>)
        /\ last.outcomes[h] = "Halt"
        /\ h \in DOMAIN running_events
        /\ running_events[h].contexts = <<>>
        /\ Deref(running_events[h].outputs) = <<VNumber(1)>>
        /\ h \notin DOMAIN completed_events
\* run_event has started an event with an entry node in this step
RunEventActs ==
    /\ Idle /\ last'.op = "run_event" /\ last'.result = "Ok"
    /\ last'.handle \in DOMAIN running_events'
    /\ HasContext(running_events'[last'.handle])

\* a call node is at the instruction pointer, and its step leaves the context it
\* pushed on top of the stack
CallPushActs ==
    /\ NodeStepActs
    /\ SteppedNode.node_type.t \in {"CallFunction", "CallMethod"}
    /\ last'.result = "Ok"
    /\ last'.handle \in DOMAIN running_events'
    /\ Len(SteppedAfter.contexts) = Len(Stepped.contexts) + 1

\* context c is as a construct's activation starts: the sentinel alone on its
\* jump stack, nothing cached, every local variable and every output slot None
FreshContext(c) ==
    /\ c.jump_stack = <<JumpNone>>
    /\ c.node_outputs = EmptyMap
    /\ \A g \in DOMAIN c.variables : heap'[c.variables[g]] = VNone
    /\ \A i \in DOMAIN c.outputs : heap'[c.outputs[i]] = VNone

\* C32: every context created by run_event, CallFunction or CallMethod starts
\* with a jump stack holding exactly the sentinel, an empty node-output cache,
\* all local variables None and all output slots None, whatever earlier
\* activations of the construct did; creating it leaves the caller's jump stack
\* and locals unchanged, also when the call node is a terminal node.
C32_NewContextsStartFresh ==
    [][/\ RunEventActs => FreshContext(Top(running_events'[last'.handle]))
       /\ CallPushActs =>
            /\ FreshContext(Top(SteppedAfter))
            /\ SteppedAfter.contexts[Len(Stepped.contexts)].jump_stack =
                    Top(Stepped).jump_stack
            /\ SteppedAfter.contexts[Len(Stepped.contexts)].variables =
                    Top(Stepped).variables]_vars
\* the constructs of the program that own nodes, as [nodes, variables]: events,
\* functions, the traits' methods and the types' own methods
Constructs ==
    {[nodes |-> e.nodes, variables |-> e.variables] : e \in Range(ast.events)}
    \cup {[nodes |-> f.nodes, variables |-> f.variables] : f \in Range(ast.functions)}
    \cup UNION {{[nodes |-> m.nodes, variables |-> m.variables] : m \in Range(t.methods)} :
                    t \in Range(ast.traits)}
    \cup UNION {{[nodes |-> m.nodes, variables |-> m.variables] : m \in Range(OwnMethods(t))} :
                    t \in Range(ast.types)}

\* the variables declared by the construct the node being stepped belongs to
DeclaredLocals ==
    (CHOOSE c \in Constructs : \E n \in Range(c.nodes) : n = SteppedNode).variables

\* a GetLocalVariable node that names its variable is at the instruction pointer
GetLocalActs ==
    /\ NodeStepActs
    /\ SteppedNode.node_type.t = "GetLocalVariable"
    /\ SteppedNode.node_type.a.t = "Named"

\* C33: a GetLocalVariable node that refers to a variable by name returns, in
\* an event, a function, an overriding method and a trait-default method alike,
\* the Reference the current context stores for the variable of that name
\* declared by the executing construct, and fails with
\* LocalVariableDoesNotExists only when the construct declares none.
C33_LocalVariablesAreReadByName ==
    [][GetLocalActs =>
        IF FindName(DeclaredLocals, SteppedNode.node_type.a.id) # 0
        THEN /\ last'.result = "Ok"
             /\ last'.handle \in DOMAIN running_events'
             /\ SteppedAfter.contexts[Len(Stepped.contexts)].node_outputs[SteppedNode.guid] =
                    << Top(Stepped).variables[
                          DeclaredLocals[FindName(DeclaredLocals,
                                                  SteppedNode.node_type.a.id)].guid] >>
        ELSE last'.result = "LocalVariableDoesNotExists"]_vars
\* C34: in every reachable state every key of a context's node-output cache is
\* the id of a node of that same context's compiled order: a returning callee's
\* outputs are never written into a context other than its direct caller's,
\* including when caller and callee are exhausted in the same step.
C34_CacheKeysAreNodesOfTheContext ==
    \A h \in DOMAIN running_events :
        \A i \in DOMAIN running_events[h].contexts :
            DOMAIN running_events[h].contexts[i].node_outputs
                \subseteq Range(running_events[h].contexts[i].execution)
\* a successful step executes a node that issues no jump: it is no Loop, IfElse,
\* Break or Continue, and it is no terminal node under a Loop or IfElse marker
PlainStepActs ==
    /\ NodeStepActs
    /\ last'.result = "Ok"
    /\ last'.handle \in DOMAIN running_events'
    /\ SteppedNode.node_type.t \notin {"Loop", "IfElse", "Break", "Continue"}
    /\ ~(SteppedNode.guid \in end_nodes /\ TopJump(Stepped).t \in {"Loop", "IfElse"})

\* the instruction indices of the contexts of ev, bottom first
Pointers(ev) == [i \in DOMAIN ev.contexts |-> ev.contexts[i].current]

\* C35: a step that executes a node other than Loop, IfElse, Break or Continue,
\* and that pops no Loop or IfElse marker at a terminal node, either advances
\* the top context's instruction index by exactly one, pops exhausted contexts
\* and advances the context that becomes the top by one, or pushes a new
\* context that stands at index 0; it lowers the index of no live context and
\* skips no index.
C35_PointersMoveForwardByOne ==
    [][PlainStepActs =>
        LET n == Len(Stepped.contexts)
            m == Len(SteppedAfter.contexts)
        IN  CASE m = n + 1 ->
                    /\ SubSeq(Pointers(SteppedAfter), 1, n) = Pointers(Stepped)
                    /\ Pointers(SteppedAfter)[m] = 0
              [] m <= n /\ m >= 1 ->
                    /\ SubSeq(Pointers(SteppedAfter), 1, m - 1) =
                            SubSeq(Pointers(Stepped), 1, m - 1)
                    /\ Pointers(SteppedAfter)[m] = Pointers(Stepped)[m] + 1
              [] m = 0 -> \A j \in 1..n :
                            Pointers(Stepped)[j] + 1 >= Len(Stepped.contexts[j].execution)
              [] OTHER -> FALSE]_vars
\* C36: whatever calls the host makes, no handle is in both the running set and
\* the completed map, and a handle that has left both (reported by
\* get_completed_events, or dropped) never reappears in either.
C36_HandlesLiveInOnePlaceAndNeverReturn ==
    /\ [](DOMAIN running_events \cap DOMAIN completed_events = {})
    /\ [][\A h \in DOMAIN issued :
            (h \notin DOMAIN running_events /\ h \notin DOMAIN completed_events) =>
                (h \notin DOMAIN running_events' /\ h \notin DOMAIN completed_events')]_vars
    /\ [][DOMAIN running_events' \cup DOMAIN completed_events' \subseteq DOMAIN issued']_vars

\* one handle has been reported by get_completed_events and is gone, and a
\* second one has just been completed or destroyed and is in the completed map
C36_Witness ==
    \E h1, h2 \in DOMAIN issued :
        /\ h1 # h2
        /\ issued[h1].reported
        /\ ~issued[h2].reported
        /\ h2 \in DOMAIN completed_events
        /\ last.op \in {"process_events", "destroy_event"}
\* the construct the node being stepped belongs to contains no Loop, IfElse,
\* Break or Continue node
PlainConstructActs ==
    /\ NodeStepActs
    /\ \A c \in Constructs :
            (\E n \in Range(c.nodes) : n = SteppedNode) =>
                \A n \in Range(c.nodes) :
                    n.node_type.t \notin {"Loop", "IfElse", "Break", "Continue"}

\* C37: running a construct that contains no Loop, IfElse, Break or Continue
\* node never fails with StackUnderflow, whatever the number of its terminal
\* nodes: a step of such a construct leaves the sentinel on the jump stack of
\* the context it executes in while that context is live.
C37_PlainConstructsKeepTheirSentinel ==
    [][PlainConstructActs =>
        /\ last'.result # "StackUnderflow"
        /\ (last'.handle \in DOMAIN running_events'
            /\ Len(SteppedAfter.contexts) >= Len(Stepped.contexts)) =>
                SteppedAfter.contexts[Len(Stepped.contexts)].jump_stack = <<JumpNone>>]_vars
\* C38: every event that process_events moves to the completed map is recorded
\* with an output list whose length is the event's declared output count, and
\* its context stack is empty at that moment: no event is reported as completed
\* while a context is still on its stack.
C38_CompletedEventsHaveNoContextLeft ==
    [][ProcessEventsActs =>
        \A h \in DOMAIN completed_events' \ DOMAIN completed_events :
            /\ h \in DOMAIN last'.returned
            /\ last'.returned[h].contexts = <<>>
            /\ Len(completed_events'[h]) = EventNamed(issued[h].name).output_constrains]_vars
\* C39: single_step_event never places a handle in the completed map: after a
\* successful call the handle is still in the running set, also when the
\* event's root context is already exhausted, in which case the call changes
\* nothing; a running event reaches the completed map only through
\* process_events or destroy_event.
C39_SingleStepNeverCompletes ==
    [][/\ SingleStepActs =>
            /\ completed_events' = completed_events
            /\ last'.result = "Ok" =>
                    /\ last'.handle \in DOMAIN running_events
                    /\ last'.handle \in DOMAIN running_events'
            /\ (last'.handle \in DOMAIN running_events
                /\ ~HasContext(running_events[last'.handle])) =>
                    /\ last'.result = "Ok"
                    /\ running_events' = running_events
                    /\ heap' = heap
       /\ \A h \in DOMAIN running_events :
            h \in DOMAIN completed_events' =>
                last'.op \in {"process_events", "destroy_event"}]_vars

\* single_step_event has just returned Ok for an event whose root context was
\* already exhausted: the event is still running, without context and with its
\* final outputs, and is not in the completed map
C39_Witness ==
    /\ last.op = "single_step_event"
    /\ last.result = "Ok"
    /\ last.handle \in DOMAIN last.outcomes
    /\ last.outcomes[last.handle] = "Stop"
    /\ last.handle \in DOMAIN running_events
    /\ running_events[last.handle].contexts = <<>>
    /\ Len(running_events[last.handle].outputs) = 1
    /\ last.handle \notin DOMAIN completed_events
\* the program contains no Loop node, and no construct of it calls itself,
\* directly or through another construct (its calls go from events to functions
\* and methods that call nothing)
NoLoopNoRecursion ==
    /\ \A c \in Constructs : \A n \in Range(c.nodes) : n.node_type.t # "Loop"
    /\ \A f \in Range(ast.functions) : \A n \in Range(f.nodes) :
            n.node_type.t \notin {"CallFunction", "CallMethod"}
    /\ \A t \in Range(ast.traits) : \A m \in Range(t.methods) : \A n \in Range(m.nodes) :
            n.node_type.t \notin {"CallFunction", "CallMethod"}
    /\ \A t \in Range(ast.types) : \A m \in Range(OwnMethods(t)) : \A n \in Range(m.nodes) :
            n.node_type.t \notin {"CallFunction", "CallMethod"}

\* the number of IfElse nodes of the construct with the most of them
MostIfElses ==
    LET count(c) == Cardinality({k \in DOMAIN c.nodes : c.nodes[k].node_type.t = "IfElse"})
    IN  CHOOSE k \in 0..MaxEvents * 8 :
            /\ \E c \in Constructs : count(c) = k
            /\ \A c \in Constructs : count(c) <= k

\* C40: when the program contains no Loop node and no recursive call,
\* process_events returns: every event it drives reaches a Halt, an error or
\* exhaustion after finitely many steps, and no jump stack grows beyond the
\* sentinel and one marker per IfElse node of its construct.
C40_WithoutLoopsProcessEventsReturns ==
    [][NoLoopNoRecursion =>
        /\ ProcessEventsActs =>
                \A h \in DOMAIN last'.outcomes :
                    last'.outcomes[h] \in {"Halt", "Stop", "Err", "Untouched"}
        /\ \A h \in DOMAIN running_events' :
                \A i \in DOMAIN running_events'[h].contexts :
                    Len(running_events'[h].contexts[i].jump_stack) <= 1 + MostIfElses]_vars

====
